---- MODULE Spec2Model ----
(***************************************************************************)
(* A model of PlaywrightUI: the recorder (src/src/recorder.py), the        *)
(* post-processor (src/src/postprocess.py) and the handlers of the app     *)
(* around them (src/src/app.py).                                           *)
(*                                                                         *)
(* The specifications of this module share its variables:                  *)
(*   SpecRec      the recorder instance: start_recording calls and the     *)
(*                background threads they launch;                          *)
(*   SpecApp      the start button of the app and the recorder behind it;  *)
(*   SpecLogin    one run of the login phase: _run_with_auto_login with    *)
(*                the recorder's perform_login_with_retry, or the          *)
(*                generated test with the embedded d365_auto_login,        *)
(*                against a page whose observable state is chosen by the   *)
(*                environment (FairLogin: the same, run to its end);       *)
(*   SpecMfaPass  one pass of the MFA navigation loop;                     *)
(*   SpecExtract  the first pass over the codegen output;                  *)
(*   SpecClean    the second pass of _cleanup_recorded_code;               *)
(*   SpecFlow     two recordings side by side, alike but for credentials;  *)
(*   SpecAnalyze  TestAnalyzer on one recorded line;                       *)
(*   SpecPost     PostProcessor on the generated test;                     *)
(*   SpecTable    PostProcessor on the text of an earlier edit pass.       *)
(***************************************************************************)
EXTENDS Integers, Sequences, FiniteSets, TLC

VARIABLES
    \* ---- the recorder instance (PlaywrightRecorder) ----
    is_recording,      \* self._is_recording
    current_session,   \* self._current_session: 0 is None, else a session id
    session,           \* the RecordingSession objects created so far, by id
    thread,            \* the background threads, by the id of their session
    lastCall,          \* how the last start_recording call ended
    target_url,        \* config.d365.environment_url is set
    credentials,       \* self.credentials is not None
    process,           \* self._process: "None" or a subprocess handle
    lastStop,          \* what the last stop_recording call found and did
    \* ---- the application around the recorder (PlaywrightUIApp) ----
    output_directory,  \* config.local_storage.output_directory is set
    start_record_btn,  \* "enabled" or "disabled"
    request,           \* the last click on the start button and how it ended
    \* ---- _cleanup_recorded_code, second pass ----
    page_actions,      \* the extracted action lines
    k,                 \* lines of page_actions the loop has been through
    cleaned_actions,   \* the lines kept so far, indented
    prev_line,         \* the last line kept
    cleaned_code,      \* the value returned, once it is
    \* ---- PostProcessor (postprocess.py) ----
    code,              \* PostProcessor.code, as lines of tokens
    lines,             \* TestModifier.lines
    inputs,            \* PostProcessor._inputs, the DetectedInput objects
    applied,           \* what apply() returned, call by call, since the last edit
    altered,           \* an apply() has returned code other than the original
    last_edit,         \* the last edit of an input: the operation and its arguments
    table,             \* the TEST_VARIABLES dict PostProcessor.code came with
    \* ---- two recordings side by side, alike but for the credentials ----
    cred,              \* self.credentials of each run
    fpc,               \* the statement both runs are about to execute
    sent,              \* what each run has typed into the page
    stdout,            \* what each run has printed
    exc,               \* the text of the exception being handled
    recorded,          \* the file codegen left, if any
    fsession,          \* self._current_session of each run
    fresult,           \* the RecordingResult of each run
    artifact,          \* the text each run wrote to output_path
    \* ---- TestAnalyzer on one recorded line ----
    cur_value,         \* the value of the line, character by character
    cur_selector,      \* its selector
    detected,          \* the DetectedInput of the line, analysis by analysis
    chosen_name,       \* the variable name taken over from a suggestion
    \* ---- the first pass over the codegen output ----
    cleanup_code,      \* config.recording.cleanup_code
    raw_lines,         \* raw_code.split('\n'), each line with its indentation
    pos,               \* lines of raw_lines the loop has been through
    in_run_function,   \* the loop has passed the "def run(playwright...)" line
    extracted,         \* page_actions: the lines kept so far, stripped
    extraction,        \* the lines handed on, once the pass is over
    \* ---- one run of the login phase ----
    routine,           \* "recorder": _run_with_auto_login; "embedded": the generated test
    pageKind,          \* how the page under test behaves (see PageKinds)
    creds,             \* D365_USERNAME and D365_PASSWORD are both set (embedded)
    totp_secret,       \* a TOTP secret was supplied
    pc,                \* the statement the run is about to execute
    attempt,           \* the for-loop variable of the login routine
    attempts,          \* login attempts begun so far
    mfa_attempt,       \* iterations of the MFA navigation loop in this attempt
    totp_field_found,  \* the MFA loop saw the TOTP input
    elapsed,           \* ticks spent in the timed loop being run
    error_retry_count, \* reloads done for AADSTS900561 in the embedded wait loop
    script,            \* the screen a scripted page shows ("none" if unscripted)
    nav,               \* the navigation that opened the attempt under way
    login_success,     \* what the login routine returned: "none" while running
    logged_in,         \* the recorder's post-login wait loop reached the target
    auth_file,         \* the storage-state file exists in the temp directory
    codegen,           \* the recording subprocess was launched
    returncode,        \* its exit status: "none", "zero" or "nonzero"
    totp_submit,       \* how the TOTP stage of this attempt went ("none" before it)
    polled,            \* this attempt has been in the manual-completion poll
    stay_click,        \* the last button a wait loop clicked for "Stay signed in?"
    seen,              \* what the MFA pass under study observes
    act,               \* what that pass did
    success_url,       \* the page.url the login routine returned True on ("unchecked": unread)
    outcome            \* the RecordingResult returned, or how the test ended

stopVars == <<process, lastStop>>

appVars == <<output_directory, start_record_btn, request>>

cleanVars == <<page_actions, k, cleaned_actions, prev_line, cleaned_code>>

postVars == <<code, lines, inputs, applied, altered, last_edit, table>>

flowVars == <<cred, fpc, sent, stdout, exc, recorded, fsession, fresult, artifact>>

anVars == <<cur_value, cur_selector, detected, chosen_name>>

exVars == <<cleanup_code, raw_lines, pos, in_run_function, extracted, extraction>>

restVars == <<stopVars, appVars, cleanVars, postVars, flowVars, anVars, exVars>>

recVars == <<is_recording, current_session, session, thread, lastCall,
             target_url, credentials, restVars>>

cfgVars == <<routine, pageKind, creds, totp_secret>>

mfaVars == <<mfa_attempt, totp_field_found>>

waitVars == <<elapsed, error_retry_count>>

runVars == <<logged_in, auth_file, codegen, outcome>>

histVars == <<nav, returncode>>

stageRest == <<totp_submit, polled, stay_click, seen, act>>

stageVars == <<stageRest, success_url>>

loginVars == <<cfgVars, pc, attempt, attempts, mfaVars, waitVars, script,
               login_success, runVars, histVars, stageVars>>

vars == <<recVars, loginVars>>

-----------------------------------------------------------------------------
(* Bounds *)

\* start_recording calls that are accepted in one behaviour
MaxCalls == 3

-----------------------------------------------------------------------------
(* The recorder instance: start_recording and run_recording *)

SessionIds == 1..MaxCalls

\* a RecordingSession as its constructor leaves it (recorder.py 29-40)
RecordingSession(auto) ==
    [ended_at |-> FALSE, is_complete |-> FALSE, error |-> FALSE,
     raw_output |-> 0, output_file |-> FALSE, auto_login |-> auto]

NoSession == [ended_at |-> FALSE, is_complete |-> FALSE, error |-> FALSE,
              raw_output |-> 0, output_file |-> FALSE, auto_login |-> FALSE]

\* a thread: where it is in run_recording, the flag it closed over, the
\* result its run returned ("none", "raised", or the id of the session the
\* RecordingResult refers to), and how often it has invoked each callback
NoThread == [pc |-> "idle", do_auto_login |-> FALSE, result |-> 0,
             on_complete |-> 0, on_error |-> 0]

Created == {t \in SessionIds : thread[t].pc # "idle"}

Unfinished == {t \in SessionIds : thread[t].pc \notin {"idle", "done"}}

\* __init__: self._process = None (recorder.py 106)
NoStop == [recording |-> FALSE, signalled |-> FALSE, is_recording |-> FALSE]

StopInit == process = "None" /\ lastStop = NoStop

NoRequest == [test_name |-> FALSE, auto_login |-> FALSE, outcome |-> "none"]

AppIdle ==
    /\ output_directory = TRUE
    /\ start_record_btn = "enabled"
    /\ request = NoRequest

\* the function has not returned
NotReturned == [returned |-> FALSE, lines |-> <<>>]

\* prev_line = ""
NoLine == [op |-> "", sel |-> "", ms |-> 0]

CleanIdle ==
    /\ page_actions = <<>>
    /\ k = 0
    /\ cleaned_actions = <<>>
    /\ prev_line = NoLine
    /\ cleaned_code = NotReturned

\* no input has been edited
NoEdit == [op |-> "none", n |-> 0, text |-> ""]

\* the TEST_VARIABLES dict of the generated test: comment lines, no entry
TemplateTable == [present |-> TRUE, items |-> {}]

PostIdle ==
    /\ table = TemplateTable
    /\ code = <<>>
    /\ lines = <<>>
    /\ inputs = <<>>
    /\ applied = <<>>
    /\ altered = FALSE
    /\ last_edit = NoEdit

Runs == {1, 2}

NoCredentials == [username |-> "", password |-> "", totp_secret |-> ""]

\* RecordingResult not yet made
NoResult == [success |-> FALSE, generated_code |-> <<>>, file_path |-> "",
             message |-> <<>>]

FlowIdle ==
    /\ cred = [r \in Runs |-> NoCredentials]
    /\ fpc = "idle"
    /\ sent = [r \in Runs |-> {}]
    /\ stdout = [r \in Runs |-> {}]
    /\ exc = ""
    /\ recorded = <<>>
    /\ fsession = [r \in Runs |-> NoSession]
    /\ fresult = [r \in Runs |-> NoResult]
    /\ artifact = [r \in Runs |-> <<>>]

\* no MFA pass is under study
NotSeen ==
    [raise |-> TRUE, totp |-> FALSE, push |-> FALSE, pushFails |-> FALSE,
     visible |-> {}, broken |-> {}, mfa_error |-> FALSE, indicators |-> FALSE]

NoAct == [step |-> "none", clicked |-> "none", strategy |-> 0]

StageIdle ==
    /\ totp_submit = "none"
    /\ polled = FALSE
    /\ stay_click = "none"
    /\ success_url = "none"
    /\ seen = NotSeen
    /\ act = NoAct

\* no analysis has been made, no name taken over
AnalyzeIdle ==
    /\ cur_value = <<>>
    /\ cur_selector = <<>>
    /\ detected = <<>>
    /\ chosen_name = <<>>

\* no codegen output is being gone through
ExtractIdle ==
    /\ cleanup_code = TRUE
    /\ raw_lines = <<>>
    /\ pos = 0
    /\ in_run_function = FALSE
    /\ extracted = <<>>
    /\ extraction = NotReturned

RestInit ==
    StopInit /\ AppIdle /\ CleanIdle /\ PostIdle /\ FlowIdle /\ AnalyzeIdle /\ ExtractIdle

InitRec ==
    /\ RestInit
    /\ is_recording = FALSE
    /\ current_session = 0
    /\ session = [t \in SessionIds |-> NoSession]
    /\ thread = [t \in SessionIds |-> NoThread]
    /\ lastCall = "none"
    /\ target_url \in BOOLEAN
    /\ credentials \in BOOLEAN
    /\ StageIdle
    /\ routine = "recorder" /\ pageKind = "any" /\ creds = TRUE
    /\ totp_secret = FALSE /\ pc = "idle" /\ attempt = 0 /\ attempts = 0
    /\ mfa_attempt = 0 /\ totp_field_found = FALSE /\ elapsed = 0
    /\ error_retry_count = 0 /\ script = "none" /\ login_success = "none"
    /\ logged_in = FALSE /\ auth_file = FALSE /\ codegen = FALSE
    /\ outcome = "none" /\ nav = "none" /\ returncode = "none"

\* start_recording, the whole call on the caller's thread
\* (mutant) the session is created before the target URL is looked at
StartRecording_SessionFirst(auto_login) ==
    IF is_recording
    THEN /\ lastCall' = "RuntimeError"
         /\ UNCHANGED <<is_recording, current_session, session, thread,
                        target_url, credentials, loginVars, restVars>>
    ELSE /\ Cardinality(Created) < MaxCalls
         /\ LET id == Cardinality(Created) + 1
                do_auto_login == auto_login /\ credentials
            IN /\ current_session' = id
               /\ session' = [session EXCEPT ![id] =
                     [RecordingSession(do_auto_login) EXCEPT !.output_file = TRUE]]
               /\ IF ~target_url
                  THEN lastCall' = "ValueError" /\ UNCHANGED thread
                  ELSE /\ thread' = [thread EXCEPT ![id] =
                             [pc |-> "spawned", do_auto_login |-> do_auto_login,
                              result |-> 0, on_complete |-> 0, on_error |-> 0]]
                       /\ lastCall' = "accepted"
         /\ UNCHANGED <<is_recording, target_url, credentials, loginVars, restVars>>

StartRecording(auto_login) ==
    IF is_recording
    THEN /\ lastCall' = "RuntimeError"
         /\ UNCHANGED <<is_recording, current_session, session, thread,
                        target_url, credentials, loginVars, restVars>>
    ELSE IF ~target_url
    THEN /\ lastCall' = "ValueError"
         /\ UNCHANGED <<is_recording, current_session, session, thread,
                        target_url, credentials, loginVars, restVars>>
    ELSE /\ Cardinality(Created) < MaxCalls
         /\ LET id == Cardinality(Created) + 1
                do_auto_login == auto_login /\ credentials
            IN /\ current_session' = id
               /\ session' = [session EXCEPT ![id] =
                     [RecordingSession(do_auto_login) EXCEPT !.output_file = TRUE]]
               /\ thread' = [thread EXCEPT ![id] =
                     [pc |-> "spawned", do_auto_login |-> do_auto_login, result |-> 0,
                      on_complete |-> 0, on_error |-> 0]]
               /\ lastCall' = "accepted"
         /\ UNCHANGED <<is_recording, target_url, credentials, loginVars, restVars>>

\* run_recording, first statement: self._is_recording = True
RunBegin(t) ==
    /\ thread[t].pc = "spawned"
    /\ is_recording' = TRUE
    /\ thread' = [thread EXCEPT ![t].pc = "run"]
    /\ UNCHANGED <<current_session, session, lastCall, target_url, credentials,
                   loginVars, restVars>>

\* the run itself: _run_with_auto_login or _run_codegen. Both store the
\* subprocess output in self._current_session and return a RecordingResult
\* whose session is self._current_session; the imports at the head of
\* _run_with_auto_login are outside its try and may raise.
RunBody(t) ==
    /\ thread[t].pc = "run"
    /\ \/ /\ session' = [session EXCEPT ![current_session].raw_output = t]
          /\ thread' = [thread EXCEPT ![t].pc = "mark", ![t].result = current_session]
       \/ /\ thread[t].do_auto_login
          /\ thread' = [thread EXCEPT ![t].pc = "except"]
          /\ UNCHANGED session
    /\ UNCHANGED <<is_recording, current_session, lastCall, target_url, credentials,
                   loginVars, restVars>>

\* self._current_session.ended_at = now; self._current_session.is_complete = True
RunMark(t) ==
    /\ thread[t].pc = "mark"
    /\ session' = [session EXCEPT ![current_session].ended_at = TRUE,
                                  ![current_session].is_complete = TRUE]
    /\ thread' = [thread EXCEPT ![t].pc = "callback"]
    /\ UNCHANGED <<is_recording, current_session, lastCall, target_url, credentials,
                   loginVars, restVars>>

\* on_complete(result): returns, or raises into the except clause
RunCallback(t) ==
    /\ thread[t].pc = "callback"
    /\ \E raised \in BOOLEAN :
          thread' = [thread EXCEPT ![t].pc = IF raised THEN "except" ELSE "finally",
                                   ![t].on_complete = @ + 1]
    /\ UNCHANGED <<is_recording, current_session, session, lastCall, target_url,
                   credentials, loginVars, restVars>>

\* except Exception: self._current_session.error = str(e); on_error(str(e))
RunExcept(t) ==
    /\ thread[t].pc = "except"
    /\ session' = [session EXCEPT ![current_session].error = TRUE]
    /\ thread' = [thread EXCEPT ![t].pc = "finally", ![t].on_error = @ + 1]
    /\ UNCHANGED <<is_recording, current_session, lastCall, target_url, credentials,
                   loginVars, restVars>>

\* finally: self._is_recording = False
RunFinally(t) ==
    /\ thread[t].pc = "finally"
    /\ is_recording' = FALSE
    /\ thread' = [thread EXCEPT ![t].pc = "done"]
    /\ UNCHANGED <<current_session, session, lastCall, target_url, credentials,
                   loginVars, restVars>>

\* stop_recording: "if self._process and self._process.poll() is None:
\* self._process.terminate(); self._is_recording = False". lastStop keeps
\* what the call found (recording) and left (signalled, is_recording).
StopRecording ==
    /\ IF process = "running"
       THEN /\ process' = "terminating"
            /\ is_recording' = FALSE
            /\ lastStop' = [recording |-> is_recording, signalled |-> TRUE,
                            is_recording |-> FALSE]
       ELSE /\ lastStop' = [recording |-> is_recording, signalled |-> FALSE,
                            is_recording |-> is_recording]
            /\ UNCHANGED <<process, is_recording>>
    /\ UNCHANGED <<current_session, session, thread, lastCall, target_url,
                   credentials, appVars, cleanVars, postVars, flowVars, anVars, exVars, loginVars>>

NextRec ==
    \/ \E auto_login \in BOOLEAN : StartRecording(auto_login)
    \/ StopRecording
    \/ \E t \in SessionIds : RunBegin(t)
    \/ \E t \in SessionIds : RunBody(t)
    \/ \E t \in SessionIds : RunMark(t)
    \/ \E t \in SessionIds : RunCallback(t)
    \/ \E t \in SessionIds : RunExcept(t)
    \/ \E t \in SessionIds : RunFinally(t)

SpecRec == InitRec /\ [][NextRec]_vars

-----------------------------------------------------------------------------
(* The application: the start button of the Record tab (app.py) *)

\* the login run at rest
LoginIdle ==
    /\ StageIdle
    /\ routine = "recorder" /\ pageKind = "any" /\ creds = TRUE
    /\ totp_secret = FALSE /\ pc = "idle" /\ attempt = 0 /\ attempts = 0
    /\ mfa_attempt = 0 /\ totp_field_found = FALSE /\ elapsed = 0
    /\ error_retry_count = 0 /\ script = "none" /\ login_success = "none"
    /\ logged_in = FALSE /\ auth_file = FALSE /\ codegen = FALSE
    /\ outcome = "none" /\ nav = "none" /\ returncode = "none"

\* PlaywrightUIApp.__init__: self.recorder = None; the settings as stored
InitApp ==
    /\ StopInit
    /\ output_directory \in BOOLEAN
    /\ start_record_btn = "enabled"
    /\ request = NoRequest
    /\ is_recording = FALSE
    /\ current_session = 0
    /\ session = [t \in SessionIds |-> NoSession]
    /\ thread = [t \in SessionIds |-> NoThread]
    /\ lastCall = "none"
    /\ target_url \in BOOLEAN
    /\ credentials = FALSE
    /\ LoginIdle
    /\ CleanIdle
    /\ PostIdle
    /\ FlowIdle
    /\ AnalyzeIdle
    /\ ExtractIdle

\* the snackbars that end _on_start_recording before start_recording
Rejected == {"no_test_name", "no_url", "no_output_directory", "no_credentials"}

\* "if auto_login and not self.recorder.has_credentials"
MissingCredentials_Never(auto_login, has_credentials) == FALSE

MissingCredentials(auto_login, has_credentials) == auto_login /\ ~has_credentials

\* _on_start_recording, the whole handler: the three checks of the inputs,
\* _initialize_managers (a new PlaywrightRecorder with the credentials the key
\* vault yields, kv), the check of the credentials, and start_recording on
\* the new recorder, whose URL check has been passed already
OnStartRecording(test_name, auto_login) ==
    /\ start_record_btn = "enabled"
    /\ IF ~test_name \/ ~target_url \/ ~output_directory
       THEN /\ request' = [test_name |-> test_name, auto_login |-> auto_login,
                           outcome |-> IF ~test_name THEN "no_test_name"
                                       ELSE IF ~target_url THEN "no_url"
                                       ELSE "no_output_directory"]
            /\ UNCHANGED <<is_recording, current_session, session, thread, lastCall,
                           credentials, process, start_record_btn>>
       ELSE \E kv \in BOOLEAN :
            /\ credentials' = kv
            /\ is_recording' = FALSE
            /\ process' = "None"
            /\ IF MissingCredentials(auto_login, kv)
               THEN /\ request' = [test_name |-> test_name, auto_login |-> auto_login,
                                   outcome |-> "no_credentials"]
                    /\ current_session' = 0
                    /\ UNCHANGED <<session, thread, lastCall, start_record_btn>>
               ELSE /\ Cardinality(Created) < MaxCalls
                    /\ LET id == Cardinality(Created) + 1
                           do_auto_login == auto_login /\ kv
                       IN /\ current_session' = id
                          /\ session' = [session EXCEPT ![id] =
                                [RecordingSession(do_auto_login) EXCEPT !.output_file = TRUE]]
                          /\ thread' = [thread EXCEPT ![id] =
                                [pc |-> "spawned", do_auto_login |-> do_auto_login,
                                 result |-> 0, on_complete |-> 0, on_error |-> 0]]
                    /\ lastCall' = "accepted"
                    /\ start_record_btn' = "disabled"
                    /\ request' = [test_name |-> test_name, auto_login |-> auto_login,
                                   outcome |-> "started"]
    /\ UNCHANGED <<target_url, output_directory, lastStop, loginVars, cleanVars, postVars, flowVars, anVars, exVars>>

\* the background run of session t ends and calls on_complete or on_error:
\* _on_recording_complete and _on_recording_error enable the button again
OnRecordingDone(t) ==
    /\ thread[t].pc = "spawned"
    /\ thread' = [thread EXCEPT ![t].pc = "done"]
    /\ start_record_btn' = "enabled"
    /\ UNCHANGED <<is_recording, current_session, session, lastCall, target_url,
                   credentials, stopVars, output_directory, request, loginVars,
                   cleanVars, postVars, flowVars, anVars, exVars>>

\* _on_save_settings: config_manager.update(...), then _initialize_managers;
\* an exception leaves the settings as they were
OnSaveSettings ==
    /\ \/ \E url \in BOOLEAN, dir \in BOOLEAN, kv \in BOOLEAN :
             /\ target_url' = url
             /\ output_directory' = dir
             /\ credentials' = kv
             /\ is_recording' = FALSE
             /\ current_session' = 0
             /\ process' = "None"
       \/ UNCHANGED <<target_url, output_directory, credentials, is_recording,
                      current_session, process>>
    /\ UNCHANGED <<session, thread, lastCall, lastStop, start_record_btn, request,
                   loginVars, cleanVars, postVars, flowVars, anVars, exVars>>

NextApp ==
    \/ \E test_name \in BOOLEAN, auto_login \in BOOLEAN :
          OnStartRecording(test_name, auto_login)
    \/ \E t \in SessionIds : OnRecordingDone(t)
    \/ OnSaveSettings

SpecApp == InitApp /\ [][NextApp]_vars

-----------------------------------------------------------------------------
(* The login phase: constants, the page, and the loop exits *)

\* perform_login_with_retry(page, max_retries=2), d365_auto_login(page, max_retries=2)
MaxRetries == 2

\* mfa_max_attempts = 10
mfa_max_attempts == 10

\* max_wait = 120 s, wait_max = 90 s and the 60 s manual-MFA wait, in ticks of
\* 30 s; one pass through a timed loop takes at least one tick
RecWaitMax == 4

WaitMax == 3

MfaWaitMax == 2

MaxTick == 2

Ticks == 1..MaxTick

\* the try/except ImportError around "import pyotp" in the generated file
HAS_PYOTP == TRUE

\* The page under test.
\*   "any"          every observation is arbitrary and every page operation
\*                  may raise;
\*   "always_error" a known provider error code is in the page content at
\*                  every observation; operations do not raise;
\*   "on_target"    the URL is on the target domain (and not on the identity
\*                  provider's) throughout; what the page shows is
\*                  arbitrary; operations do not raise;
\*   "mfa_script"   the happy path, with the MFA screens [options, push,
\*                  TOTP] where each click advances to the next screen.
PageKinds == {"any", "always_error", "on_target", "mfa_script"}

\* the URL classes the code tells apart: "target" has dynamics.com and not
\* login.microsoftonline; "idp_redirect" has both (the identity provider
\* with the target in a parameter); "idp" has no dynamics.com
Urls == {"target", "idp_redirect", "idp"}

\* "dynamics.com" in url and "login.microsoftonline" not in url
UrlReachedTarget(u) == u = "target"

\* "dynamics.com" in url
UrlHasTarget(u) == u \in {"target", "idp_redirect"}

\* what page.url can read now
UrlObs ==
    CASE pageKind = "on_target" -> {"target"}
      [] pageKind = "mfa_script" -> IF script = "app" THEN {"target"} ELSE {"idp"}
      [] OTHER -> Urls

\* what check_for_login_error / _check_login_error can return now: no
\* error, a known error (code or visible error element), or AADSTS900561
ErrObs ==
    CASE pageKind = "always_error" -> {"code", "aadsts900561"}
      [] pageKind = "mfa_script" -> {"none"}
      [] OTHER -> {"none", "code", "aadsts900561"}

\* whether a bounded selector wait finds its element
FoundObs == IF pageKind = "mfa_script" THEN {TRUE} ELSE BOOLEAN

\* whether a page operation (goto, reload, click, fill, wait) raises
Raises == IF pageKind = "any" THEN BOOLEAN ELSE {FALSE}

\* the selector strategies for "Use a verification code", in declared order:
\* data-value attribute, aria-label, div with text, get_by_text
Strategies == 1..4

\* What one pass of the MFA loop can see: page.content() raised (and then
\* nothing else is looked at); the TOTP input is present; the push-screen
\* link is visible, and clicking it fails; the strategies whose element is
\* visible, and those of them whose click fails; the transient MFA error
\* text and the MFA indicator texts are in the page content.
MfaSeen ==
    {[raise |-> FALSE, totp |-> t, push |-> p[1], pushFails |-> p[2],
      visible |-> v, broken |-> b, mfa_error |-> m, indicators |-> i] :
        t \in BOOLEAN,
        p \in {<<FALSE, FALSE>>, <<TRUE, FALSE>>, <<TRUE, TRUE>>},
        v \in SUBSET Strategies, b \in SUBSET Strategies,
        m \in BOOLEAN, i \in BOOLEAN}

MfaRaised ==
    [raise |-> TRUE, totp |-> FALSE, push |-> FALSE, pushFails |-> FALSE,
     visible |-> {}, broken |-> {}, mfa_error |-> FALSE, indicators |-> FALSE]

MfaObsQuiet == {o \in MfaSeen : o.broken \subseteq o.visible}

MfaObsFaulty == MfaObsQuiet \cup {MfaRaised}

\* the screens of the scripted page: the options screen shows at least one
\* "Use a verification code" element, the push screen the "I can't use my
\* Microsoft Authenticator app right now" link, the TOTP screen the input
MfaObsScript(screen) ==
    {o \in MfaObsQuiet :
        /\ ~o.pushFails /\ o.broken = {}
        /\ o.totp = (screen = "totp")
        /\ o.push = (screen = "push")
        /\ (screen = "options") => o.visible # {}}

MfaObsOptions == MfaObsScript("options")

MfaObsPush == MfaObsScript("push")

MfaObsTotp == MfaObsScript("totp")

MfaObs ==
    CASE pageKind = "mfa_script" /\ script = "options" -> MfaObsOptions
      [] pageKind = "mfa_script" /\ script = "push" -> MfaObsPush
      [] pageKind = "mfa_script" /\ script = "totp" -> MfaObsTotp
      [] pageKind = "any" -> MfaObsFaulty
      [] OTHER -> MfaObsQuiet

\* (mutant) the counter is reset when the transient MFA error is seen
MfaCount_Restart(d) == IF d = "mfa_error" THEN 0 ELSE mfa_attempt + 1

\* "mfa_attempt += 1" at the head of a pass
MfaCount(d) == mfa_attempt + 1

\* (mutant) the cap is tested with <= instead of <
MfaLoopContinues_OffByOne(n, found) == n <= mfa_max_attempts /\ ~found

\* the test of "while mfa_attempt < mfa_max_attempts and not totp_field_found"
MfaLoopContinues(n, found) == n < mfa_max_attempts /\ ~found

\* (mutant) the generic MFA-page check is made before the options check
MfaDecide_WaitFirst(o) ==
    IF o.raise THEN "exception"
    ELSE IF o.totp THEN "totp"
    ELSE IF o.push /\ ~o.pushFails THEN "push"
    ELSE IF o.indicators THEN "mfa_wait"
    ELSE IF o.visible \ o.broken # {} THEN "options"
    ELSE IF o.mfa_error THEN "mfa_error"
    ELSE "leave"

\* One pass of the MFA navigation loop, as the code decides it: the checks
\* in their order, the first applicable one wins.
MfaDecide(o) ==
    IF o.raise THEN "exception"
    ELSE IF o.totp THEN "totp"
    ELSE IF o.push /\ ~o.pushFails THEN "push"
    ELSE IF o.visible \ o.broken # {} THEN "options"
    ELSE IF o.mfa_error THEN "mfa_error"
    ELSE IF o.indicators THEN "mfa_wait"
    ELSE "leave"

\* What the pass does on the page: the element it clicks with success, and
\* for "Use a verification code" the strategy that found it, the first in
\* the declared order whose element is visible and takes the click.
MfaAct(o) ==
    LET d == MfaDecide(o)
    IN [step |-> d,
        clicked |-> CASE d = "push" -> "cant_use_link"
                      [] d = "options" -> "code_option"
                      [] OTHER -> "none",
        strategy |-> IF d = "options"
                     THEN CHOOSE x \in o.visible \ o.broken :
                              \A y \in o.visible \ o.broken : x <= y
                     ELSE 0]

\* the screen a scripted page shows after the click the MFA pass made
ScriptAfter(d) ==
    IF script = "options" /\ d = "options" THEN "push"
    ELSE IF script = "push" /\ d = "push" THEN "totp"
    ELSE script

\* ---- how an attempt of the recorder's routine ends ----

Goto(p) == pc' = p /\ UNCHANGED <<attempt, login_success>>

\* (mutant) an early exit aborts the routine instead of retrying
RContinue_Abort ==
    /\ login_success' = "false"
    /\ pc' = "after_login"
    /\ UNCHANGED attempt

\* "continue" in "for attempt in range(max_retries + 1)"; after the last
\* attempt the loop ends and the routine returns False (recorder.py 1435)
RContinue ==
    IF attempt < MaxRetries
    THEN /\ attempt' = attempt + 1
         /\ pc' = "r_head"
         /\ UNCHANGED login_success
    ELSE /\ login_success' = "false"
         /\ pc' = "after_login"
         /\ UNCHANGED attempt

\* return True / return False
RReturn(b) ==
    /\ login_success' = b
    /\ pc' = "after_login"
    /\ UNCHANGED attempt

\* an exception in a step: perform_login_with_retry has no handler, so it
\* leaves the routine and reaches the except clause of _run_with_auto_login
RRaise ==
    /\ login_success' = "raised"
    /\ pc' = "except"
    /\ UNCHANGED attempt

\* ---- how an attempt of the embedded routine ends ----

\* (mutant) the budget is one attempt short
EContinue_OffByOne ==
    IF attempt + 1 < MaxRetries
    THEN /\ attempt' = attempt + 1
         /\ pc' = "e_head"
         /\ UNCHANGED login_success
    ELSE /\ login_success' = "false"
         /\ pc' = "t_after"
         /\ UNCHANGED attempt

\* "if attempt < max_retries: continue" followed by "return False"
EContinue ==
    IF attempt < MaxRetries
    THEN /\ attempt' = attempt + 1
         /\ pc' = "e_head"
         /\ UNCHANGED login_success
    ELSE /\ login_success' = "false"
         /\ pc' = "t_after"
         /\ UNCHANGED attempt

EReturn(b) ==
    /\ login_success' = b
    /\ pc' = "t_after"
    /\ UNCHANGED attempt

\* "except Exception as e" closing the attempt's try (recorder.py 917-921)
EExcept == EContinue

InitLogin ==
    /\ RestInit
    /\ is_recording = FALSE
    /\ current_session = 0
    /\ session = [t \in SessionIds |-> NoSession]
    /\ thread = [t \in SessionIds |-> NoThread]
    /\ lastCall = "none"
    /\ target_url = TRUE
    /\ credentials = TRUE
    /\ routine \in {"recorder", "embedded"}
    /\ pageKind \in PageKinds
    /\ creds \in (IF routine = "embedded" THEN BOOLEAN ELSE {TRUE})
    /\ totp_secret \in BOOLEAN
    /\ pc = IF routine = "recorder" THEN "launch" ELSE "t_goto"
    /\ attempt = 0
    /\ attempts = 0
    /\ mfa_attempt = 0
    /\ totp_field_found = FALSE
    /\ elapsed = 0
    /\ error_retry_count = 0
    /\ script = IF pageKind = "mfa_script" THEN "login" ELSE "none"
    /\ login_success = "none"
    /\ logged_in = FALSE
    /\ auth_file = FALSE
    /\ codegen = FALSE
    /\ outcome = "none"
    /\ nav = "none"
    /\ returncode = "none"
    /\ StageIdle

-----------------------------------------------------------------------------
(* _run_with_auto_login and perform_login_with_retry (the recorder's run) *)

\* sync_playwright, browser launch, new page, page.goto(target_url), then the
\* call of perform_login_with_retry
A_Launch ==
    /\ pc = "launch"
    /\ \E raised \in BOOLEAN :
          pc' = IF raised THEN "except" ELSE "r_head"
    /\ UNCHANGED <<recVars, stageVars, histVars, cfgVars, attempt, attempts, mfaVars, waitVars, script,
                   login_success, runVars>>

\* the head of an attempt: on a retry, page.goto(target_url)
R_Head ==
    /\ pc = "r_head"
    /\ attempts' = attempts + 1
    /\ nav' = IF attempt > 0 THEN "goto_target" ELSE "none"
    /\ IF attempt > 0
       THEN \E raised \in Raises : IF raised THEN RRaise ELSE Goto("r_check")
       ELSE Goto("r_check")
    /\ totp_submit' = "none"
    /\ polled' = FALSE
    /\ UNCHANGED <<recVars, stay_click, seen, act, success_url, returncode, cfgVars, mfaVars, waitVars, script, runVars>>

\* "Check for error before starting"
R_ErrorCheck ==
    /\ pc = "r_check"
    /\ \E e \in ErrObs :
          IF e # "none"
          THEN IF attempt < MaxRetries
               THEN \E raised \in Raises : IF raised THEN RRaise ELSE RContinue
               ELSE RReturn("false")
          ELSE Goto("r_url")
    /\ UNCHANGED <<recVars, stageVars, histVars, cfgVars, attempts, mfaVars, waitVars, script, runVars>>

\* "Check if already logged in", then the wait for the page to load
R_AlreadyLoggedIn ==
    /\ pc = "r_url"
    /\ \E u \in UrlObs :
          IF UrlReachedTarget(u)
          THEN RReturn("true") /\ success_url' = u
          ELSE /\ \E raised \in Raises : IF raised THEN RRaise ELSE Goto("r_email")
               /\ UNCHANGED success_url
    /\ UNCHANGED <<recVars, stageRest, histVars, cfgVars, attempts, mfaVars, waitVars, script, runVars>>

\* the email field, by three selectors of 5 s each
R_FindEmail ==
    /\ pc = "r_email"
    /\ \E found \in FoundObs :
          IF found
          THEN Goto("r_enter_email") /\ UNCHANGED success_url
          ELSE \E u \in UrlObs :
                  IF UrlHasTarget(u)
                  THEN RReturn("true") /\ success_url' = u
                  ELSE RContinue /\ UNCHANGED success_url
    /\ UNCHANGED <<recVars, stageRest, histVars, cfgVars, attempts, mfaVars, waitVars, script, runVars>>

\* wait_for_selector, click, fill the username
R_EnterEmail ==
    /\ pc = "r_enter_email"
    /\ \E raised \in Raises : IF raised THEN RRaise ELSE Goto("r_next")
    /\ UNCHANGED <<recVars, stageVars, histVars, cfgVars, attempts, mfaVars, waitVars, script, runVars>>

\* the Next button, by three selectors
R_ClickNext ==
    /\ pc = "r_next"
    /\ \E clicked \in FoundObs :
          IF clicked THEN Goto("r_after_email") ELSE RContinue
    /\ UNCHANGED <<recVars, stageVars, histVars, cfgVars, attempts, mfaVars, waitVars, script, runVars>>

\* "Check for error after email submission"
R_AfterEmail ==
    /\ pc = "r_after_email"
    /\ \E e \in ErrObs :
          IF e # "none"
          THEN IF attempt < MaxRetries THEN RContinue ELSE RReturn("false")
          ELSE Goto("r_password")
    /\ UNCHANGED <<recVars, stageVars, histVars, cfgVars, attempts, mfaVars, waitVars, script, runVars>>

\* the password field, by three selectors of 10 s each
R_FindPassword ==
    /\ pc = "r_password"
    /\ \E found \in FoundObs :
          IF found THEN Goto("r_enter_password") ELSE RContinue
    /\ UNCHANGED <<recVars, stageVars, histVars, cfgVars, attempts, mfaVars, waitVars, script, runVars>>

\* wait_for_selector, click, fill the password
R_EnterPassword ==
    /\ pc = "r_enter_password"
    /\ \E raised \in Raises : IF raised THEN RRaise ELSE Goto("r_signin")
    /\ UNCHANGED <<recVars, stageVars, histVars, cfgVars, attempts, mfaVars, waitVars, script, runVars>>

\* the Sign in button; then the MFA loop's variables are set up
R_ClickSignIn ==
    /\ pc = "r_signin"
    /\ \E clicked \in FoundObs :
          IF clicked
          THEN /\ Goto("r_mfa")
               /\ mfa_attempt' = 0
               /\ totp_field_found' = FALSE
               /\ script' = IF script = "login" THEN "options" ELSE script
          ELSE /\ RContinue
               /\ UNCHANGED <<mfaVars, script>>
    /\ UNCHANGED <<recVars, stageVars, histVars, cfgVars, attempts, waitVars, runVars>>

\* one pass of "while mfa_attempt < mfa_max_attempts and not totp_field_found",
\* with the loop test that follows it
R_MfaStep ==
    /\ pc = "r_mfa"
    /\ \E o \in MfaObs :
          LET d == MfaDecide(o)
          IN /\ mfa_attempt' = MfaCount(d)
             /\ totp_field_found' = (d = "totp")
             /\ script' = ScriptAfter(d)
             /\ IF d \in {"totp", "leave"}
                THEN Goto("r_totp")   \* break
                ELSE IF MfaLoopContinues(mfa_attempt', totp_field_found')
                     THEN Goto("r_mfa")
                     ELSE Goto("r_totp")
    /\ UNCHANGED <<recVars, stageVars, histVars, cfgVars, attempts, waitVars, runVars>>

\* "try:" wait_for_selector, pyotp, page.fill, page.click; "except Exception
\* as otp_ex:" only prints; "else:" there is no secret
TotpStage(secret, found, raised) ==
    IF secret
    THEN IF found /\ ~raised THEN "submitted" ELSE "failed"
    ELSE "no_secret"

\* "After navigation loop, try to fill TOTP if we have the secret"; the
\* routine then returns True whatever happened
R_TotpSubmit ==
    /\ pc = "r_totp"
    /\ \E found \in FoundObs, raised \in Raises :
          totp_submit' = TotpStage(totp_secret, found, raised)
    /\ RReturn("true")
    /\ script' = IF script = "totp" THEN "app" ELSE script
    /\ success_url' = "unchecked"
    /\ UNCHANGED <<recVars, polled, stay_click, seen, act, histVars, cfgVars, attempts,
                   mfaVars, waitVars, runVars>>

\* What a pass of a wait loop finds of the "Stay signed in?" prompt: the
\* "No" button #idBtn_Back, the primary button #idSIButton9 (the prompt's
\* "Yes", and the "Next" and "Sign in" of the other screens), and whether
\* the page is the prompt (#KmsiBanner, or "stay signed in" in its content)
StayObs ==
    IF pageKind = "mfa_script"
    THEN {[back |-> FALSE, primary |-> FALSE, prompt |-> FALSE]}
    ELSE [back : BOOLEAN, primary : BOOLEAN, prompt : BOOLEAN]

\* the button the recorder's wait loop clicks: "no", "yes" (the primary
\* button of the prompt), "primary_elsewhere" (that of another page), "none"
R_StayClick(b) ==
    IF b.back THEN "no"
    ELSE IF b.primary THEN (IF b.prompt THEN "yes" ELSE "primary_elsewhere")
    ELSE "none"

\* the button the embedded routine's wait loop clicks
E_StayClick(b) ==
    IF b.back THEN "no"
    ELSE IF b.primary /\ b.prompt THEN "yes"
    ELSE "none"

Latest(click, before) == IF click = "none" THEN before ELSE click

\* "if login_success:" and the set-up of the post-login wait loop
A_AfterLogin ==
    /\ pc = "after_login"
    /\ IF login_success = "true"
       THEN /\ pc' = "wait"
            /\ elapsed' = 0
            /\ logged_in' = FALSE
       ELSE /\ pc' = "save"
            /\ UNCHANGED <<elapsed, logged_in>>
    /\ UNCHANGED <<recVars, stageVars, histVars, cfgVars, attempt, attempts, mfaVars, error_retry_count,
                   script, login_success, auth_file, codegen, outcome>>

\* one pass of "while time.time() - start_time < max_wait", with the loop
\* test that follows it
A_WaitStep ==
    /\ pc = "wait"
    /\ \E e \in ErrObs, u \in UrlObs, d \in Ticks, raised \in Raises :
          IF e # "none"
          THEN \* page.reload, sleep, continue
               IF raised
               THEN /\ pc' = "except"
                    /\ UNCHANGED <<elapsed, logged_in, stay_click>>
               ELSE /\ elapsed' = elapsed + d
                    /\ pc' = IF elapsed' < RecWaitMax THEN "wait" ELSE "wait_end"
                    /\ UNCHANGED <<logged_in, stay_click>>
          ELSE IF UrlReachedTarget(u)
          THEN /\ logged_in' = TRUE
               /\ pc' = "wait_end"
               /\ UNCHANGED <<elapsed, stay_click>>
          ELSE \* the "Stay signed in?" buttons, each followed by a sleep
               /\ elapsed' = elapsed + d
               /\ pc' = IF elapsed' < RecWaitMax THEN "wait" ELSE "wait_end"
               /\ UNCHANGED logged_in
               /\ \E b \in StayObs : stay_click' = Latest(R_StayClick(b), stay_click)
    /\ UNCHANGED <<recVars, totp_submit, polled, seen, act, histVars, cfgVars, attempt,
                   attempts, mfaVars, error_retry_count, success_url,
                   script, login_success, auth_file, codegen, outcome>>

\* "One more check", and the wait for the page to stabilise
A_WaitEnd ==
    /\ pc = "wait_end"
    /\ \E u \in UrlObs :
          logged_in' = (logged_in \/ UrlHasTarget(u))
    /\ pc' = "save"
    /\ UNCHANGED <<recVars, stageVars, histVars, cfgVars, attempt, attempts, mfaVars, waitVars, script,
                   login_success, auth_file, codegen, outcome>>

\* context.storage_state(path=storage_state_path); browser.close()
A_Save ==
    /\ pc = "save"
    /\ \E how \in {"not_written", "written_then_raised", "ok"} :
          /\ auth_file' = (auth_file \/ how # "not_written")
          /\ pc' = IF how = "ok" THEN "codegen" ELSE "except"
    /\ UNCHANGED <<recVars, stageVars, histVars, cfgVars, attempt, attempts, mfaVars, waitVars, script,
                   login_success, logged_in, codegen, outcome>>

\* subprocess.run(cmd) with --load-storage: returns the CompletedProcess when
\* the subprocess has exited, with whatever status (check is not set), or
\* raises when the subprocess cannot be started
A_Codegen ==
    /\ pc = "codegen"
    /\ \E raised \in BOOLEAN, status \in {"zero", "nonzero"} :
          /\ codegen' = ~raised
          /\ returncode' = IF raised THEN "none" ELSE status
          /\ pc' = IF raised THEN "except" ELSE "cleanup"
    /\ UNCHANGED <<recVars, stageVars, nav, cfgVars, attempt, attempts, mfaVars, waitVars, script,
                   login_success, logged_in, auth_file, outcome>>

\* "Clean up auth state file": os.remove(storage_state_path)
A_Cleanup ==
    /\ pc = "cleanup"
    /\ auth_file' = FALSE
    /\ pc' = "process"
    /\ UNCHANGED <<recVars, stageVars, histVars, cfgVars, attempt, attempts, mfaVars, waitVars, script,
                   login_success, logged_in, codegen, outcome>>

\* "Process the recorded output": the result, or an exception while reading,
\* cleaning or writing the file
A_Process ==
    /\ pc = "process"
    /\ \E r \in {"success", "no_file", "raise"} :
          IF r = "raise"
          THEN pc' = "except" /\ UNCHANGED outcome
          ELSE pc' = "returned" /\ outcome' = r
    /\ UNCHANGED <<recVars, stageVars, histVars, cfgVars, attempt, attempts, mfaVars, waitVars, script,
                   login_success, logged_in, auth_file, codegen>>

\* "except Exception as e": RecordingResult(success=False,
\* message="Recording with auto-login failed: ...")
A_Except ==
    /\ pc = "except"
    /\ outcome' = "failed"
    /\ pc' = "returned"
    /\ UNCHANGED <<recVars, stageVars, histVars, cfgVars, attempt, attempts, mfaVars, waitVars, script,
                   login_success, logged_in, auth_file, codegen>>

NextRecorderRun ==
    \/ A_Launch
    \/ R_Head
    \/ R_ErrorCheck
    \/ R_AlreadyLoggedIn
    \/ R_FindEmail
    \/ R_EnterEmail
    \/ R_ClickNext
    \/ R_AfterEmail
    \/ R_FindPassword
    \/ R_EnterPassword
    \/ R_ClickSignIn
    \/ R_MfaStep
    \/ R_TotpSubmit
    \/ A_AfterLogin
    \/ A_WaitStep
    \/ A_WaitEnd
    \/ A_Save
    \/ A_Codegen
    \/ A_Cleanup
    \/ A_Process
    \/ A_Except

-----------------------------------------------------------------------------
(* The generated test and its embedded d365_auto_login *)

\* test_<name>: page.goto(TARGET_URL, ...), then the call of d365_auto_login
T_Goto ==
    /\ pc = "t_goto"
    /\ \E raised \in Raises :
          IF raised
          THEN pc' = "t_done" /\ outcome' = "error"
          ELSE pc' = "e_creds" /\ UNCHANGED outcome
    /\ UNCHANGED <<recVars, stageVars, histVars, cfgVars, attempt, attempts, mfaVars, waitVars, script,
                   login_success, logged_in, auth_file, codegen>>

\* "if not username or not password: ... return False"
E_Creds ==
    /\ pc = "e_creds"
    /\ IF ~creds THEN EReturn("false") ELSE Goto("e_head")
    /\ UNCHANGED <<recVars, stageVars, histVars, cfgVars, attempts, mfaVars, waitVars, script, runVars>>

\* the head of an attempt: on a retry, page.reload(...)
E_Head ==
    /\ pc = "e_head"
    /\ attempts' = attempts + 1
    /\ nav' = IF attempt > 0 THEN "reload" ELSE "none"
    /\ IF attempt > 0
       THEN \E raised \in Raises : IF raised THEN EExcept ELSE Goto("e_check")
       ELSE Goto("e_check")
    /\ totp_submit' = "none"
    /\ polled' = FALSE
    /\ UNCHANGED <<recVars, stay_click, seen, act, success_url, returncode, cfgVars, mfaVars, waitVars, script, runVars>>

\* "Check for errors before starting"
E_ErrorCheck ==
    /\ pc = "e_check"
    /\ \E e \in ErrObs : IF e # "none" THEN EContinue ELSE Goto("e_load")
    /\ UNCHANGED <<recVars, stageVars, histVars, cfgVars, attempts, mfaVars, waitVars, script, runVars>>

\* the wait for the page to load, then "Check if already on D365"
E_LoadWait ==
    /\ pc = "e_load"
    /\ \E raised \in Raises, u \in UrlObs :
          IF raised THEN EExcept /\ UNCHANGED success_url
          ELSE IF UrlReachedTarget(u) THEN EReturn("true") /\ success_url' = u
          ELSE Goto("e_email") /\ UNCHANGED success_url
    /\ UNCHANGED <<recVars, stageRest, histVars, cfgVars, attempts, mfaVars, waitVars, script, runVars>>

\* the email field, by three selectors of 5 s each
E_FindEmail ==
    /\ pc = "e_email"
    /\ \E found \in FoundObs :
          IF found
          THEN Goto("e_enter_email") /\ UNCHANGED success_url
          ELSE \E u \in UrlObs :
                  IF UrlHasTarget(u)
                  THEN EReturn("true") /\ success_url' = u
                  ELSE EContinue /\ UNCHANGED success_url
    /\ UNCHANGED <<recVars, stageRest, histVars, cfgVars, attempts, mfaVars, waitVars, script, runVars>>

\* wait_for_selector, click, fill the username
E_EnterEmail ==
    /\ pc = "e_enter_email"
    /\ \E raised \in Raises : IF raised THEN EExcept ELSE Goto("e_next")
    /\ UNCHANGED <<recVars, stageVars, histVars, cfgVars, attempts, mfaVars, waitVars, script, runVars>>

\* the Next button, by three selectors
E_ClickNext ==
    /\ pc = "e_next"
    /\ \E clicked \in FoundObs :
          IF clicked THEN Goto("e_after_email") ELSE EContinue
    /\ UNCHANGED <<recVars, stageVars, histVars, cfgVars, attempts, mfaVars, waitVars, script, runVars>>

\* "Check for errors after email submission"
E_AfterEmail ==
    /\ pc = "e_after_email"
    /\ \E e \in ErrObs : IF e # "none" THEN EContinue ELSE Goto("e_password")
    /\ UNCHANGED <<recVars, stageVars, histVars, cfgVars, attempts, mfaVars, waitVars, script, runVars>>

\* the password field, by three selectors of 10 s each
E_FindPassword ==
    /\ pc = "e_password"
    /\ \E found \in FoundObs :
          IF found THEN Goto("e_enter_password") ELSE EContinue
    /\ UNCHANGED <<recVars, stageVars, histVars, cfgVars, attempts, mfaVars, waitVars, script, runVars>>

\* wait_for_selector, click, fill the password
E_EnterPassword ==
    /\ pc = "e_enter_password"
    /\ \E raised \in Raises : IF raised THEN EExcept ELSE Goto("e_signin")
    /\ UNCHANGED <<recVars, stageVars, histVars, cfgVars, attempts, mfaVars, waitVars, script, runVars>>

\* the Sign in button; then the MFA loop's variables are set up
E_ClickSignIn ==
    /\ pc = "e_signin"
    /\ \E clicked \in FoundObs :
          IF clicked
          THEN /\ Goto("e_mfa")
               /\ mfa_attempt' = 0
               /\ totp_field_found' = FALSE
               /\ script' = IF script = "login" THEN "options" ELSE script
          ELSE /\ EContinue
               /\ UNCHANGED <<mfaVars, script>>
    /\ UNCHANGED <<recVars, stageVars, histVars, cfgVars, attempts, waitVars, runVars>>

\* one pass of "while mfa_attempt < mfa_max_attempts and not totp_field_found",
\* with the loop test that follows it
E_MfaStep ==
    /\ pc = "e_mfa"
    /\ \E o \in MfaObs :
          LET d == MfaDecide(o)
          IN /\ mfa_attempt' = MfaCount(d)
             /\ totp_field_found' = (d = "totp")
             /\ script' = ScriptAfter(d)
             /\ IF d \in {"totp", "leave"}
                THEN Goto("e_totp")   \* break
                ELSE IF MfaLoopContinues(mfa_attempt', totp_field_found')
                     THEN Goto("e_mfa")
                     ELSE Goto("e_totp")
    /\ UNCHANGED <<recVars, stageVars, histVars, cfgVars, attempts, waitVars, runVars>>

\* "After navigation loop, try to fill TOTP if we have the secret": with a
\* secret the code is submitted (a failure is only printed); without one the
\* manual-completion wait is entered
E_TotpSubmit ==
    /\ pc = "e_totp"
    /\ \E found \in FoundObs, raised \in Raises :
          totp_submit' = TotpStage(totp_secret /\ HAS_PYOTP, found, raised)
    /\ IF totp_secret /\ HAS_PYOTP
       THEN /\ Goto("e_wait")
            /\ error_retry_count' = 0
       ELSE /\ Goto("e_manual")
            /\ UNCHANGED error_retry_count
    /\ elapsed' = 0
    /\ script' = IF script = "totp" THEN "app" ELSE script
    /\ UNCHANGED <<recVars, polled, stay_click, seen, act, success_url, histVars, cfgVars,
                   attempts, mfaVars, runVars>>

\* one pass of "while time.time() - mfa_wait_start < 60", with the loop test
\* that follows it; leaving the loop sets up the wait-for-completion loop
E_ManualWait ==
    /\ pc = "e_manual"
    /\ \E raised \in Raises, u \in UrlObs, stay \in BOOLEAN, e \in ErrObs, d \in Ticks :
          IF ~raised /\ (UrlReachedTarget(u) \/ stay \/ e # "none")
          THEN \* break
               /\ pc' = "e_wait"
               /\ elapsed' = 0
          ELSE \* time.sleep(1)
               IF elapsed + d < MfaWaitMax
               THEN /\ pc' = "e_manual"
                    /\ elapsed' = elapsed + d
               ELSE /\ pc' = "e_wait"
                    /\ elapsed' = 0
    /\ error_retry_count' = IF pc' = "e_wait" THEN 0 ELSE error_retry_count
    /\ polled' = TRUE
    /\ UNCHANGED <<recVars, totp_submit, stay_click, seen, act, success_url, histVars, cfgVars,
                   attempt, attempts, mfaVars, script, login_success, runVars>>

\* one pass of "while time.time() - wait_start < wait_max", with the loop
\* test that follows it and, when the loop ends, "Login may not have
\* completed"
E_WaitStep ==
    /\ pc = "e_wait"
    /\ \E e \in ErrObs, u \in UrlObs, raised \in Raises, d \in Ticks :
          IF e # "none"
          THEN IF e = "aadsts900561" /\ error_retry_count < 2
               THEN \* sleep, page.reload, sleep, continue
                    IF raised
                    THEN EExcept /\ UNCHANGED <<waitVars, stay_click, success_url>>
                    ELSE /\ error_retry_count' = error_retry_count + 1
                         /\ elapsed' = elapsed + d
                         /\ IF elapsed' < WaitMax THEN Goto("e_wait") ELSE EContinue
                         /\ UNCHANGED <<stay_click, success_url>>
               ELSE \* break (then continue), or return False
                    EContinue /\ UNCHANGED <<waitVars, stay_click, success_url>>
          ELSE IF UrlReachedTarget(u)
          THEN EReturn("true") /\ success_url' = u /\ UNCHANGED <<waitVars, stay_click>>
          ELSE \* the "Stay signed in?" buttons, each followed by a sleep
               /\ elapsed' = elapsed + d
               /\ IF elapsed' < WaitMax THEN Goto("e_wait") ELSE EContinue
               /\ UNCHANGED <<error_retry_count, success_url>>
               /\ \E b \in StayObs : stay_click' = Latest(E_StayClick(b), stay_click)
    /\ UNCHANGED <<recVars, totp_submit, polled, seen, act, histVars, cfgVars, attempts,
                   mfaVars, script, runVars>>

\* (mutant) the recorded actions are replayed first, in place of the login
T_Actions_First ==
    /\ pc = "e_creds"
    /\ pc' = "t_done"
    /\ outcome' = "replayed"
    /\ UNCHANGED <<recVars, stageVars, histVars, cfgVars, attempt, attempts, mfaVars, waitVars, script,
                   login_success, logged_in, auth_file, codegen>>

\* back in the test: the return value of d365_auto_login is not looked at, and
\* the recorded actions are replayed
T_Actions ==
    /\ pc = "t_after"
    /\ pc' = "t_done"
    /\ outcome' = "replayed"
    /\ UNCHANGED <<recVars, stageVars, histVars, cfgVars, attempt, attempts, mfaVars, waitVars, script,
                   login_success, logged_in, auth_file, codegen>>

NextEmbeddedRun ==
    \/ T_Goto
    \/ E_Creds
    \/ E_Head
    \/ E_ErrorCheck
    \/ E_LoadWait
    \/ E_FindEmail
    \/ E_EnterEmail
    \/ E_ClickNext
    \/ E_AfterEmail
    \/ E_FindPassword
    \/ E_EnterPassword
    \/ E_ClickSignIn
    \/ E_MfaStep
    \/ E_TotpSubmit
    \/ E_ManualWait
    \/ E_WaitStep
    \/ T_Actions

NextLogin == NextRecorderRun \/ NextEmbeddedRun

\* the login phase runs on one thread that is never suspended for good: each
\* statement, once reached, is executed
FairLogin == InitLogin /\ [][NextLogin]_vars /\ WF_vars(NextLogin)

SpecLogin == InitLogin /\ [][NextLogin]_vars

-----------------------------------------------------------------------------
(* One pass of the MFA navigation loop, on a page that shows what is in seen *)

\* an attempt of either routine that has clicked "Sign in" and has made
\* mfa_attempt passes of the loop without seeing the TOTP input
InitMfaPass ==
    /\ RestInit
    /\ is_recording = FALSE
    /\ current_session = 0
    /\ session = [t \in SessionIds |-> NoSession]
    /\ thread = [t \in SessionIds |-> NoThread]
    /\ lastCall = "none"
    /\ target_url = TRUE
    /\ credentials = TRUE
    /\ routine \in {"recorder", "embedded"}
    /\ pageKind = "any"
    /\ creds = TRUE
    /\ totp_secret \in BOOLEAN
    /\ pc = IF routine = "recorder" THEN "r_mfa" ELSE "e_mfa"
    /\ attempt = 0
    /\ attempts = 1
    /\ mfa_attempt \in 0..(mfa_max_attempts - 1)
    /\ totp_field_found = FALSE
    /\ elapsed = 0
    /\ error_retry_count = 0
    /\ script = "none"
    /\ login_success = "none"
    /\ logged_in = FALSE
    /\ auth_file = FALSE
    /\ codegen = FALSE
    /\ outcome = "none"
    /\ nav = "none"
    /\ returncode = "none"
    /\ totp_submit = "none"
    /\ polled = FALSE
    /\ stay_click = "none"
    /\ success_url = "none"
    /\ seen \in MfaObsFaulty
    /\ act = NoAct

\* the body of "while mfa_attempt < mfa_max_attempts and not
\* totp_field_found" on that page, with the loop test that follows it
MfaPass ==
    /\ pc \in {"r_mfa", "e_mfa"}
    /\ act = NoAct
    /\ LET d == MfaDecide(seen)
           after == IF pc = "r_mfa" THEN "r_totp" ELSE "e_totp"
       IN /\ act' = MfaAct(seen)
          /\ mfa_attempt' = MfaCount(d)
          /\ totp_field_found' = (d = "totp")
          /\ IF d \in {"totp", "leave"}
             THEN Goto(after)   \* break
             ELSE IF MfaLoopContinues(mfa_attempt', totp_field_found')
                  THEN Goto(pc)
                  ELSE Goto(after)
    /\ UNCHANGED <<recVars, histVars, cfgVars, attempts, waitVars, script, runVars,
                   totp_submit, polled, stay_click, seen, success_url>>

NextMfaPass == MfaPass

SpecMfaPass == InitMfaPass /\ [][NextMfaPass]_vars

-----------------------------------------------------------------------------
(* _cleanup_recorded_code: the second pass over the extracted actions *)

\* lines of page_actions in one run
MaxLen == 3

\* The action lines the run is fed. A line is the call it makes (op) and
\* what the call is given: the selector (sel) of a click or a fill, the
\* milliseconds (ms) of a wait. "get_by_role.click" is page.get_by_role(...).click(), the
\* click TestAnalyzer.PATTERNS['click_text'] detects.
Waits == {0, 50, 99, 100, 150}

Lines ==
    {[op |-> "page.click", sel |-> a, ms |-> 0] : a \in {"#save", "body", "#idSIButton9"}}
    \cup {[op |-> "get_by_role.click", sel |-> "Save", ms |-> 0]}
    \cup {[op |-> "page.wait_for_timeout", sel |-> "", ms |-> n] : n \in Waits}
    \cup {[op |-> "page.fill", sel |-> "#name", ms |-> 0],
          [op |-> "page.mouse.move", sel |-> "", ms |-> 0]}
    \cup {[op |-> "page.goto", sel |-> u, ms |-> 0] :
              u \in {"https://org.dynamics.com/",
                     "https://login.microsoftonline.com/common"}}

\* patterns_to_remove: clicks on body, html, div, span; wait_for_timeout(0);
\* mouse moves; hover and focus on body or html
MatchesRemove(line) ==
    \/ line.op = "page.click" /\ line.sel \in {"body", "html", "div", "span"}
    \/ line.op = "page.wait_for_timeout" /\ line.ms = 0
    \/ line.op = "page.mouse.move"
    \/ line.op \in {"page.hover", "page.focus"} /\ line.sel \in {"body", "html"}

\* login_patterns: the selectors of the Microsoft login pages
MatchesLogin(line) ==
    line.sel \in {"input[type=\"email\"]", "input[type=\"password\"]",
                  "https://login.microsoftonline.com/common",
                  "#idSIButton9", "#idBtn_Back", "#idTxtBx_SAOTCC_OTC",
                  "#idSubmit_SAOTCC_Continue"}

\* line.startswith('page.click(') and prev_line == line
DuplicateClick(line, prev) == line.op = "page.click" /\ prev = line

\* (mutant) the threshold is taken inclusive
ShortTimeout_Inclusive(line) ==
    line.op = "page.wait_for_timeout" /\ line.ms <= 100

\* re.match(r'^page\.wait_for_timeout\((\d+)\)', line) and int(group(1)) < 100
ShortTimeout(line) ==
    line.op = "page.wait_for_timeout" /\ line.ms < 100

\* should_remove at the end of the loop body
ShouldRemove(line, prev) ==
    \/ MatchesRemove(line)
    \/ MatchesLogin(line)
    \/ DuplicateClick(line, prev)
    \/ ShortTimeout(line)

\* cleaned_actions.append('    ' + line)
Indented(line) == [indent |-> 4, line |-> line]

RECURSIVE SeqsUpTo(_)
SeqsUpTo(n) ==
    IF n = 0 THEN {<<>>}
    ELSE LET shorter == SeqsUpTo(n - 1)
         IN shorter \cup {Append(q, l) : q \in {x \in shorter : Len(x) = n - 1},
                                         l \in Lines}

InitClean ==
    /\ StopInit
    /\ AppIdle
    /\ is_recording = FALSE
    /\ current_session = 0
    /\ session = [t \in SessionIds |-> NoSession]
    /\ thread = [t \in SessionIds |-> NoThread]
    /\ lastCall = "none"
    /\ target_url = TRUE
    /\ credentials = FALSE
    /\ LoginIdle
    /\ PostIdle
    /\ FlowIdle
    /\ AnalyzeIdle
    /\ ExtractIdle
    /\ page_actions \in SeqsUpTo(MaxLen)
    /\ k = 0
    /\ cleaned_actions = <<>>
    /\ prev_line = NoLine
    /\ cleaned_code = NotReturned

\* one pass of "for line in page_actions": none of the lines fed carries a
\* storage_state argument, so the re.sub on it leaves the line as it is
CleanLine ==
    /\ ~cleaned_code.returned
    /\ k < Len(page_actions)
    /\ LET line == page_actions[k + 1]
       IN IF ShouldRemove(line, prev_line)
          THEN UNCHANGED <<cleaned_actions, prev_line>>
          ELSE /\ cleaned_actions' = Append(cleaned_actions, Indented(line))
               /\ prev_line' = line
    /\ k' = k + 1
    /\ UNCHANGED <<page_actions, cleaned_code>>
    /\ UNCHANGED <<is_recording, current_session, session, thread, lastCall,
                   target_url, credentials, stopVars, appVars, postVars, flowVars, anVars, exVars, loginVars>>

\* the loop is over: no kept line is blank, so the trailing-blank-line loop
\* removes nothing; return '\n'.join(cleaned_actions)
CleanReturn ==
    /\ ~cleaned_code.returned
    /\ k = Len(page_actions)
    /\ cleaned_code' = [returned |-> TRUE, lines |-> cleaned_actions]
    /\ UNCHANGED <<page_actions, k, cleaned_actions, prev_line>>
    /\ UNCHANGED <<is_recording, current_session, session, thread, lastCall,
                   target_url, credentials, stopVars, appVars, postVars, flowVars, anVars, exVars, loginVars>>

NextClean == CleanLine \/ CleanReturn

SpecClean == InitClean /\ [][NextClean]_vars

-----------------------------------------------------------------------------
(* PostProcessor: set_variable, set_new_value, clear_modification, apply *)

\* lines of the code that carry an input
MaxInputs == 2

\* apply() calls between two edits
MaxApply == 2

\* A line is a sequence of tokens: a quoted literal, with its quote
\* character, or a piece of code between literals.
Lit(q, t) == [kind |-> "lit", q |-> q, text |-> t]

Code(t) == [kind |-> "code", q |-> "", text |-> t]

\* page.fill("<selector>", "<value>"), in double or in single quotes
Fill(q, selector, value) ==
    <<Code("page.fill("), Lit(q, selector), Code(", "), Lit(q, value), Code(")")>>

FillLines == {Fill("dq", "#a", "X"), Fill("sq", "#a", "X"), Fill("dq", "X", "X")}

\* the values a caller gives set_variable and set_new_value
Names == {"", "X", "N"}

NewValues == {"N", "Y"}

\* None, in a field that otherwise holds a string
None == "None"

\* the truth value Python gives an Optional[str]
Truthy(x) == x \notin {None, ""}

\* TestAnalyzer.analyze on these lines: the first 'fill' pattern matches each
\* line once, with the second literal as the value
DetectedInput(n, line) ==
    [line_number |-> n, value |-> line[4].text, variable_name |-> None,
     new_value |-> None]

\* the first 'fill' pattern matches the line: both arguments are literals
Detectable(line) ==
    /\ Len(line) = 5
    /\ line[1] = Code("page.fill(")
    /\ line[2].kind = "lit"
    /\ line[4].kind = "lit"

\* analyze(): the lines in their order, one DetectedInput for each line a
\* pattern matches
RECURSIVE AnalyzeFrom(_, _)
AnalyzeFrom(ls, n) ==
    IF n > Len(ls) THEN <<>>
    ELSE (IF Detectable(ls[n]) THEN <<DetectedInput(n, ls[n])>> ELSE <<>>)
         \o AnalyzeFrom(ls, n + 1)

Analyze(ls) == AnalyzeFrom(ls, 1)

\* DetectedInput.display_value
DisplayValue(inp) == IF inp.new_value # None THEN inp.new_value ELSE inp.value

\* DetectedInput.is_modified
IsModified(inp) == inp.variable_name # None \/ inp.new_value # None

\* f'get_var("{inp.variable_name}")'
GetVar(name) == <<Code("get_var("), Lit("dq", name), Code(")")>>

\* str.replace of the literal value, in quotes q, by the text new
RECURSIVE Replace(_, _, _, _)
Replace(line, q, value, new) ==
    IF line = <<>> THEN <<>>
    ELSE (IF Head(line) = Lit(q, value) THEN new ELSE <<Head(line)>>)
         \o Replace(Tail(line), q, value, new)

\* (mutant) the replacement literal is looked at first
UseVariable_AfterLiteral(inp) == Truthy(inp.variable_name) /\ ~Truthy(inp.new_value)

\* "if inp.variable_name:" in the loop that rewrites the lines
UseVariable(inp) == Truthy(inp.variable_name)

\* the body of "for inp in inputs" for one input and its line
ModifiedLine(inp, original_line) ==
    IF UseVariable(inp)
    THEN Replace(Replace(original_line, "dq", inp.value, GetVar(inp.variable_name)),
                 "sq", inp.value, GetVar(inp.variable_name))
    ELSE IF Truthy(inp.new_value)
    THEN Replace(Replace(original_line, "dq", inp.value, <<Lit("dq", inp.new_value)>>),
                 "sq", inp.value, <<Lit("sq", inp.new_value)>>)
    ELSE original_line

\* (mutant) the line after the input's
LineIdx_Next(inp) == inp.line_number + 1

\* "line_idx = inp.line_number - 1", an index into a list that starts at 0:
\* the input's own line
LineIdx(inp) == inp.line_number

\* "Apply line modifications": the inputs in their order, each on the line
\* as the ones before it left it
RECURSIVE ApplyInputs(_, _, _)
ApplyInputs(modified_lines, ins, n) ==
    IF n > Len(ins) THEN modified_lines
    ELSE LET inp == ins[n]
             line_idx == LineIdx(inp)
         IN IF ~IsModified(inp) \/ line_idx < 1 \/ line_idx > Len(modified_lines)
            THEN ApplyInputs(modified_lines, ins, n + 1)
            ELSE ApplyInputs([modified_lines EXCEPT ![line_idx] =
                                  ModifiedLine(inp, modified_lines[line_idx])],
                             ins, n + 1)

\* "Collect all variables": the dict, as its items; a later input with the
\* name of an earlier one overwrites its value
Variables(ins) ==
    {<<ins[n].variable_name,
       IF Truthy(ins[n].new_value) THEN ins[n].new_value ELSE ins[n].value>> :
        n \in {m \in 1..Len(ins) :
                 /\ Truthy(ins[m].variable_name)
                 /\ \A l \in (m + 1)..Len(ins) :
                       ins[l].variable_name # ins[m].variable_name}}

\* _update_variables_dict: re.sub puts the new dict in the place of the one
\* the code has; a code without one is left as it is
UpdateVariablesDict(variables) == IF table.present THEN variables ELSE {}

\* apply_modifications: the rewritten lines and the entries of the
\* TEST_VARIABLES dict of the text returned, which "if variables:" leaves
\* as it was when no variable is collected
ApplyModifications(ls, ins) ==
    [modified_lines |-> ApplyInputs(ls, ins, 1),
     TEST_VARIABLES |-> IF Variables(ins) # {}
                        THEN UpdateVariablesDict(Variables(ins))
                        ELSE table.items]

\* (mutant) modified_lines is self.lines itself, not a copy
KeepLines_Aliased(modified_lines) == modified_lines

\* "modified_lines = self.lines.copy()": self.lines is left as it is
KeepLines(modified_lines) == lines

RECURSIVE FillSeqs(_)
FillSeqs(n) ==
    IF n = 0 THEN {<<>>}
    ELSE LET shorter == FillSeqs(n - 1)
         IN shorter \cup {Append(q, l) : q \in {x \in shorter : Len(x) = n - 1},
                                         l \in FillLines}

\* PostProcessor(code) and the first get_inputs()
InitPost ==
    /\ StopInit
    /\ AppIdle
    /\ CleanIdle
    /\ is_recording = FALSE
    /\ current_session = 0
    /\ session = [t \in SessionIds |-> NoSession]
    /\ thread = [t \in SessionIds |-> NoThread]
    /\ lastCall = "none"
    /\ target_url = TRUE
    /\ credentials = FALSE
    /\ LoginIdle
    /\ FlowIdle
    /\ AnalyzeIdle
    /\ ExtractIdle
    /\ table = TemplateTable
    /\ code \in FillSeqs(MaxInputs) \ {<<>>}
    /\ lines = code
    /\ inputs = Analyze(code)
    /\ applied = <<>>
    /\ altered = FALSE
    /\ last_edit = NoEdit

\* an edit that changes an input starts a new series of apply() calls
Edited(new_inputs, edit) ==
    /\ inputs' = new_inputs
    /\ applied' = IF new_inputs = inputs THEN applied ELSE <<>>
    /\ last_edit' = edit
    /\ UNCHANGED <<code, lines, altered, table>>
    /\ UNCHANGED <<is_recording, current_session, session, thread, lastCall,
                   target_url, credentials, stopVars, appVars, cleanVars, flowVars, anVars, exVars, loginVars>>

\* set_variable(input_item, variable_name)
SetVariable(n, variable_name) ==
    /\ n \in 1..Len(inputs)
    /\ Edited([inputs EXCEPT ![n].variable_name = variable_name],
              [op |-> "set_variable", n |-> n, text |-> variable_name])

\* set_new_value(input_item, new_value)
SetNewValue(n, new_value) ==
    /\ n \in 1..Len(inputs)
    /\ Edited([inputs EXCEPT ![n].new_value = new_value],
              [op |-> "set_new_value", n |-> n, text |-> new_value])

\* clear_modification(input_item)
ClearModification(n) ==
    /\ n \in 1..Len(inputs)
    /\ Edited([inputs EXCEPT ![n].variable_name = None, ![n].new_value = None],
              [op |-> "clear_modification", n |-> n, text |-> ""])

\* what the user has typed into the "Variable Name" field
VariableTexts == {"", " ", "X", " N"}

\* what the user has typed into the "Value" field
ValueTexts == {"", "X", "N"}

\* str.strip() on these texts
Strip(text) ==
    CASE text = " " -> ""
      [] text = " N" -> "N"
      [] OTHER -> text

\* (mutant) the name is handed on whatever it is
NameGiven_Always(var_name) == TRUE

\* "if var_name:" in _on_input_variable_changed
NameGiven(var_name) == var_name # ""

\* _on_input_variable_changed(e, inp), e.control.value being text
OnInputVariableChanged(n, text) ==
    /\ n \in 1..Len(inputs)
    /\ LET var_name == Strip(text)
       IN Edited([inputs EXCEPT ![n].variable_name =
                      IF NameGiven(var_name) THEN var_name ELSE None],
                 [op |-> "_on_input_variable_changed", n |-> n, text |-> text])

\* _on_input_value_changed(e, inp), e.control.value being text
OnInputValueChanged(n, text) ==
    /\ n \in 1..Len(inputs)
    /\ Edited([inputs EXCEPT ![n].new_value =
                   IF text # inputs[n].value THEN text ELSE None],
              [op |-> "_on_input_value_changed", n |-> n, text |-> text])

\* _on_reset_changes: clear_modification on every input
OnResetChanges ==
    Edited([n \in 1..Len(inputs) |->
               [inputs[n] EXCEPT !.variable_name = None, !.new_value = None]],
           [op |-> "_on_reset_changes", n |-> 0, text |-> ""])

\* sum(1 for i in inputs if <condition>)
Count(ins, Cond(_)) == Cardinality({n \in 1..Len(ins) : Cond(ins[n])})

\* get_summary(): the counts of the dict it returns (by_type left out)
GetSummary(ins) ==
    LET HasVariable(i) == Truthy(i.variable_name)
        ValueOnly(i) == Truthy(i.new_value) /\ ~Truthy(i.variable_name)
    IN [total_inputs |-> Len(ins),
        modified_inputs |-> Count(ins, IsModified),
        variables_created |-> Count(ins, HasVariable),
        values_changed |-> Count(ins, ValueOnly)]

\* apply()
Apply ==
    /\ Len(applied) < MaxApply
    /\ LET result == ApplyModifications(lines, inputs)
       IN /\ applied' = Append(applied, result)
          /\ lines' = KeepLines(result.modified_lines)
          /\ altered' = (altered \/ result.modified_lines # code)
    /\ UNCHANGED <<code, inputs, last_edit, table>>
    /\ UNCHANGED <<is_recording, current_session, session, thread, lastCall,
                   target_url, credentials, stopVars, appVars, cleanVars, flowVars, anVars, exVars, loginVars>>

NextPost ==
    \/ \E n \in 1..MaxInputs, variable_name \in Names : SetVariable(n, variable_name)
    \/ \E n \in 1..MaxInputs, new_value \in NewValues : SetNewValue(n, new_value)
    \/ \E n \in 1..MaxInputs : ClearModification(n)
    \/ \E n \in 1..MaxInputs, text \in VariableTexts : OnInputVariableChanged(n, text)
    \/ \E n \in 1..MaxInputs, text \in ValueTexts : OnInputValueChanged(n, text)
    \/ OnResetChanges
    \/ Apply

SpecPost == InitPost /\ [][NextPost]_vars

-----------------------------------------------------------------------------
(* PostProcessor over an artifact of an earlier edit pass *)

\* page.fill("#b", get_var("X")), a line an earlier pass has rewritten
LookupLine ==
    <<Code("page.fill("), Lit("dq", "#b"), Code(", ")>> \o GetVar("X") \o <<Code(")")>>

\* the code has no TEST_VARIABLES dict
NoTable == [present |-> FALSE, items |-> {}]

\* the dict an earlier pass has written for LookupLine
EarlierTable == [present |-> TRUE, items |-> {<<"X", "old">>}]

\* The texts a PostProcessor is made for: the generated test as the recorder
\* writes it, a test without a TEST_VARIABLES dict, and what an earlier
\* apply() returned, with its lookup call and its dict entry.
Artifacts ==
    {[code |-> c, table |-> t] :
        c \in {<<Fill("dq", "#a", "X")>>,
               <<Fill("dq", "#a", "X"), Fill("sq", "#a", "X")>>},
        t \in {TemplateTable, NoTable}}
    \cup {[code |-> c, table |-> EarlierTable] :
            c \in {<<Fill("dq", "#a", "X"), LookupLine>>,
                   <<LookupLine, Fill("dq", "#a", "X")>>}}

\* PostProcessor(code) and the first get_inputs()
InitTable ==
    /\ StopInit
    /\ AppIdle
    /\ CleanIdle
    /\ is_recording = FALSE
    /\ current_session = 0
    /\ session = [t \in SessionIds |-> NoSession]
    /\ thread = [t \in SessionIds |-> NoThread]
    /\ lastCall = "none"
    /\ target_url = TRUE
    /\ credentials = FALSE
    /\ LoginIdle
    /\ FlowIdle
    /\ AnalyzeIdle
    /\ ExtractIdle
    /\ \E a \in Artifacts : code = a.code /\ table = a.table
    /\ lines = code
    /\ inputs = Analyze(code)
    /\ applied = <<>>
    /\ altered = FALSE
    /\ last_edit = NoEdit

SpecTable == InitTable /\ [][NextPost]_vars

-----------------------------------------------------------------------------
(* Where the credentials go: two recordings with auto-login, side by side *)

\* Both runs are given the same test name, description, URL and
\* configuration, meet the same page and the same recording subprocess (what
\* a call returns, whether it raises and with what text), and differ in
\* self.credentials alone.
Usernames == {"alice", "bob"}

Passwords == {"pw1", "pw2"}

TotpSecrets == {"", "seedA", "seedB"}

D365Credentials == [username : Usernames, password : Passwords,
                    totp_secret : TotpSecrets]

\* str(e) of an exception raised by Playwright, subprocess or the file system
ExceptionTexts == {"Timeout 30000ms exceeded", "Target closed"}

\* what the codegen subprocess leaves at output_path: nothing, or the actions
RecordedCodes == {<<>>, <<"page.click(\"#save\")">>}

\* how far perform_login_with_retry gets on the page
LoginPaths == {"already_logged_in", "error_at_every_attempt", "email_raises",
               "password_raises", "mfa_totp_found", "mfa_totp_not_found"}

\* self.credentials.username[:3] + "***"
Masked(name) == <<"first three characters of", name>>

\* pyotp.TOTP(totp_secret).now()
TotpCode(secret) == <<"code of", secret>>

\* page.fill(email_input, username), page.fill(password_input, password),
\* page.fill('#idTxtBx_SAOTCC_OTC', code): what the page is sent on a path
Typed(c, path) ==
    (IF path \in {"password_raises", "mfa_totp_found", "mfa_totp_not_found"}
     THEN {<<"text", c.username>>} ELSE {})
    \cup (IF path \in {"mfa_totp_found", "mfa_totp_not_found"}
          THEN {<<"text", c.password>>} ELSE {})
    \cup (IF path = "mfa_totp_found" /\ c.totp_secret # ""
          THEN {TotpCode(c.totp_secret)} ELSE {})

\* print(f"Entering username: {username[:3]}***"), print(f"  Entering TOTP code: {code}")
Printed(c, path) ==
    (IF path \in {"email_raises", "password_raises", "mfa_totp_found",
                  "mfa_totp_not_found"}
     THEN {Masked(c.username)} ELSE {})
    \cup (IF path = "mfa_totp_found" /\ c.totp_secret # ""
          THEN {TotpCode(c.totp_secret)} ELSE {})

\* (mutant) the test calls the login routine with the credentials written out
LoginCall_WithCredentials(c) ==
    <<"d365_auto_login(page,", c.username, c.password, ")">>

\* "d365_auto_login(page)": the generated routine reads D365_USERNAME,
\* D365_PASSWORD and D365_TOTP_SECRET from os.environ
LoginCall(c) == <<"d365_auto_login(page)">>

\* _generate_test_wrapper(raw_code, session), self.credentials being c
TestWrapper(raw_code, sess, c) ==
    <<"header", sess.test_name, sess.description, sess.started_at, sess.target_url,
      "os.environ.get(\"D365_USERNAME\")", "os.environ.get(\"D365_PASSWORD\")",
      "os.environ.get(\"D365_TOTP_SECRET\")", "TEST_VARIABLES = {}",
      "page.goto(TARGET_URL)">>
    \o LoginCall(c) \o raw_code

\* start_recording: self._current_session = RecordingSession(...) with
\* auto_login = auto_login and self.has_credentials; output_file
FlowSession ==
    [test_name |-> "test", description |-> "description", target_url |-> "url",
     started_at |-> "t0", ended_at |-> "", output_file |-> "out.py",
     raw_output |-> "", is_complete |-> FALSE, error |-> "", auto_login |-> TRUE]

InitFlow ==
    /\ StopInit
    /\ AppIdle
    /\ CleanIdle
    /\ PostIdle
    /\ is_recording = FALSE
    /\ current_session = 0
    /\ session = [t \in SessionIds |-> NoSession]
    /\ thread = [t \in SessionIds |-> NoThread]
    /\ lastCall = "none"
    /\ target_url = TRUE
    /\ credentials = TRUE
    /\ LoginIdle
    /\ AnalyzeIdle
    /\ ExtractIdle
    /\ cred \in [Runs -> D365Credentials]
    /\ fpc = "start"
    /\ sent = [r \in Runs |-> {}]
    /\ stdout = [r \in Runs |-> {}]
    /\ exc = ""
    /\ recorded = <<>>
    /\ fsession = [r \in Runs |-> NoSession]
    /\ fresult = [r \in Runs |-> NoResult]
    /\ artifact = [r \in Runs |-> <<>>]

FlowFrame ==
    UNCHANGED <<is_recording, current_session, session, thread, lastCall,
                target_url, credentials, stopVars, appVars, cleanVars, postVars,
                loginVars, anVars, exVars, cred>>

\* start_recording
F_Start ==
    /\ fpc = "start"
    /\ fsession' = [r \in Runs |-> FlowSession]
    /\ fpc' = "login"
    /\ UNCHANGED <<sent, stdout, exc, recorded, fresult, artifact>>
    /\ FlowFrame

\* the browser launch and perform_login_with_retry: the page takes both runs
\* along the same path; an exception leaves the routine
F_Login ==
    /\ fpc = "login"
    /\ \E path \in LoginPaths, m \in ExceptionTexts :
          /\ sent' = [r \in Runs |-> sent[r] \cup Typed(cred[r], path)]
          /\ stdout' = [r \in Runs |-> stdout[r] \cup Printed(cred[r], path)]
          /\ IF path \in {"email_raises", "password_raises"}
             THEN fpc' = "except" /\ exc' = m
             ELSE fpc' = "save" /\ UNCHANGED exc
    /\ UNCHANGED <<recorded, fsession, fresult, artifact>>
    /\ FlowFrame

\* the wait loop, context.storage_state(path=...), browser.close()
F_Save ==
    /\ fpc = "save"
    /\ \/ fpc' = "codegen" /\ UNCHANGED exc
       \/ \E m \in ExceptionTexts : fpc' = "except" /\ exc' = m
    /\ UNCHANGED <<sent, stdout, recorded, fsession, fresult, artifact>>
    /\ FlowFrame

\* subprocess.run(cmd, capture_output=True):
\* self._current_session.raw_output = result.stdout + result.stderr
F_Codegen ==
    /\ fpc = "codegen"
    /\ \/ \E out \in {"", "codegen log"}, file \in RecordedCodes :
             /\ fsession' = [r \in Runs |-> [fsession[r] EXCEPT !.raw_output = out]]
             /\ recorded' = file
             /\ fpc' = "process"
             /\ UNCHANGED exc
       \/ \E m \in ExceptionTexts :
             /\ fpc' = "except" /\ exc' = m
             /\ UNCHANGED <<fsession, recorded>>
    /\ UNCHANGED <<sent, stdout, fresult, artifact>>
    /\ FlowFrame

\* "Process the recorded output": clean, wrap, write, and the result
F_Process ==
    /\ fpc = "process"
    /\ IF recorded # <<>>
       THEN /\ artifact' = [r \in Runs |-> TestWrapper(recorded, fsession[r], cred[r])]
            /\ fresult' = [r \in Runs |->
                  [success |-> TRUE, generated_code |-> artifact'[r],
                   file_path |-> fsession[r].output_file,
                   message |-> <<"Recording completed successfully (with auto-login)">>]]
       ELSE /\ fresult' = [r \in Runs |->
                  [NoResult EXCEPT !.message =
                      <<"No test file generated. Recording may have been cancelled.">>]]
            /\ UNCHANGED artifact
    /\ fpc' = "mark"
    /\ UNCHANGED <<sent, stdout, exc, recorded, fsession>>
    /\ FlowFrame

\* except Exception as e: RecordingResult(success=False,
\* message=f"Recording with auto-login failed: {str(e)}")
F_Except ==
    /\ fpc = "except"
    /\ fresult' = [r \in Runs |->
          [NoResult EXCEPT !.message = <<"Recording with auto-login failed: ", exc>>]]
    /\ fpc' = "mark"
    /\ UNCHANGED <<sent, stdout, exc, recorded, fsession, artifact>>
    /\ FlowFrame

\* run_recording: ended_at, is_complete, on_complete(result), and
\* self._current_session.error = str(e) when the callback raises
F_Mark ==
    /\ fpc = "mark"
    /\ \E raised \in BOOLEAN, m \in ExceptionTexts :
          fsession' = [r \in Runs |->
              [fsession[r] EXCEPT !.ended_at = "t1", !.is_complete = TRUE,
                                  !.error = IF raised THEN m ELSE @]]
    /\ fpc' = "done"
    /\ UNCHANGED <<sent, stdout, exc, recorded, fresult, artifact>>
    /\ FlowFrame

NextFlow ==
    \/ F_Start
    \/ F_Login
    \/ F_Save
    \/ F_Codegen
    \/ F_Process
    \/ F_Except
    \/ F_Mark

SpecFlow == InitFlow /\ [][NextFlow]_vars

-----------------------------------------------------------------------------
(* TestAnalyzer: the type and the suggested name of a detected input *)

\* analyses of the same code in one behaviour
MaxAnalyses == 2

\* the quoted values of recorded lines, character by character
Values ==
    {
      \* 2024-01-15
      <<"2", "0", "2", "4", "-", "0", "1", "-", "1", "5">>,
      \* 2024-01-15x
      <<"2", "0", "2", "4", "-", "0", "1", "-", "1", "5", "x">>,
      \* 15/01/2024
      <<"1", "5", "/", "0", "1", "/", "2", "0", "2", "4">>,
      \* 15-01-2024
      <<"1", "5", "-", "0", "1", "-", "2", "0", "2", "4">>,
      \* 1-1-2024
      <<"1", "-", "1", "-", "2", "0", "2", "4">>,
      \* a@b.co
      <<"a", "@", "b", ".", "c", "o">>,
      \* a@b
      <<"a", "@", "b">>,
      \* 42
      <<"4", "2">>,
      \* -4.5
      <<"-", "4", ".", "5">>,
      \* 4.
      <<"4", ".">>,
      \* 4.5.6
      <<"4", ".", "5", ".", "6">>,
      \* abc
      <<"a", "b", "c">>,
      \* Main St
      <<"M", "a", "i", "n", " ", "S", "t">>,
      \* %1
      <<"%", "1">>,
      \* __
      <<"_", "_">>,
      \* order for customer 12345
      <<"o", "r", "d", "e", "r", " ", "f", "o", "r", " ", "c", "u", "s", "t", "o", "m", "e", "r", " ", "1", "2", "3", "4", "5">>
    }

\* the selectors analyze() hands on: the first literal of page.fill(...), or the
\* .get_by_xxx(...) part of the line
Selectors ==
    {
      \* (empty)
      <<>>,
      \* #Email
      <<"#", "E", "m", "a", "i", "l">>,
      \* #mailing
      <<"#", "m", "a", "i", "l", "i", "n", "g">>,
      \* #date
      <<"#", "d", "a", "t", "e">>,
      \* #Calendar
      <<"#", "C", "a", "l", "e", "n", "d", "a", "r">>,
      \* #number
      <<"#", "n", "u", "m", "b", "e", "r">>,
      \* #amount
      <<"#", "a", "m", "o", "u", "n", "t">>,
      \* #quantity
      <<"#", "q", "u", "a", "n", "t", "i", "t", "y">>,
      \* #qty
      <<"#", "q", "t", "y">>,
      \* #price
      <<"#", "p", "r", "i", "c", "e">>,
      \* #field
      <<"#", "f", "i", "e", "l", "d">>,
      \* .get_by_role("textbox", name="Order  No")
      <<".", "g", "e", "t", "_", "b", "y", "_", "r", "o", "l", "e", "(", "\"", "t", "e", "x", "t", "b", "o", "x", "\"", ",", " ", "n", "a", "m", "e", "=", "\"", "O", "r", "d", "e", "r", " ", " ", "N", "o", "\"", ")">>,
      \* .get_by_label("2nd")
      <<".", "g", "e", "t", "_", "b", "y", "_", "l", "a", "b", "e", "l", "(", "\"", "2", "n", "d", "\"", ")">>,
      \* .get_by_placeholder("x", id="_total_")
      <<".", "g", "e", "t", "_", "b", "y", "_", "p", "l", "a", "c", "e", "h", "o", "l", "d", "e", "r", "(", "\"", "x", "\"", ",", " ", "i", "d", "=", "\"", "_", "t", "o", "t", "a", "l", "_", "\"", ")">>,
      \* [Label: '9 lines']
      <<"[", "L", "a", "b", "e", "l", ":", " ", "'", "9", " ", "l", "i", "n", "e", "s", "'", "]">>
    }

Lowers == <<"a", "b", "c", "d", "e", "f", "g", "h", "i", "j", "k", "l", "m",
            "n", "o", "p", "q", "r", "s", "t", "u", "v", "w", "x", "y", "z">>

Uppers == <<"A", "B", "C", "D", "E", "F", "G", "H", "I", "J", "K", "L", "M",
            "N", "O", "P", "Q", "R", "S", "T", "U", "V", "W", "X", "Y", "Z">>

Digits == {"0", "1", "2", "3", "4", "5", "6", "7", "8", "9"}

Range(s) == {s[i] : i \in 1..Len(s)}

IsDigit(c) == c \in Digits

\* [a-zA-Z0-9]
IsAlnum(c) == c \in Range(Lowers) \cup Range(Uppers) \cup Digits

\* str.lower() and str.upper(), character by character
Lower(c) ==
    IF c \in Range(Uppers) THEN Lowers[CHOOSE i \in 1..26 : Uppers[i] = c] ELSE c

Upper(c) ==
    IF c \in Range(Lowers) THEN Uppers[CHOOSE i \in 1..26 : Lowers[i] = c] ELSE c

LowerStr(s) == [i \in 1..Len(s) |-> Lower(s[i])]

UpperStr(s) == [i \in 1..Len(s) |-> Upper(s[i])]

\* "hint in selector_lower"
Contains(s, hint) ==
    \E p \in 0..(Len(s) - Len(hint)) : SubSeq(s, p + 1, p + Len(hint)) = hint

\* DATE_PATTERNS, "\\d" standing for one digit
DATE_PATTERNS ==
    { <<"\\d", "\\d", "\\d", "\\d", "-", "\\d", "\\d", "-", "\\d", "\\d">>,
      <<"\\d", "\\d", "/", "\\d", "\\d", "/", "\\d", "\\d", "\\d", "\\d">>,
      <<"\\d", "\\d", "-", "\\d", "\\d", "-", "\\d", "\\d", "\\d", "\\d">> }

\* re.match(pattern, v) for a pattern of DATE_PATTERNS: the pattern at the
\* start of v, whatever follows
MatchDate(pattern, v) ==
    /\ Len(v) >= Len(pattern)
    /\ \A i \in 1..Len(pattern) :
          IF pattern[i] = "\\d" THEN IsDigit(v[i]) ELSE v[i] = pattern[i]

\* re.match(EMAIL_PATTERN, v): ^[a-zA-Z0-9_.+-]+@[a-zA-Z0-9-]+\.[a-zA-Z0-9-.]+$
MatchEmail(v) ==
    \E a, d \in 1..Len(v) :
        /\ 1 < a /\ a + 1 < d /\ d < Len(v)
        /\ v[a] = "@"
        /\ v[d] = "."
        /\ \A i \in 1..(a - 1) : IsAlnum(v[i]) \/ v[i] \in {"_", ".", "+", "-"}
        /\ \A i \in (a + 1)..(d - 1) : IsAlnum(v[i]) \/ v[i] = "-"
        /\ \A i \in (d + 1)..Len(v) : IsAlnum(v[i]) \/ v[i] \in {"-", "."}

\* re.match(NUMBER_PATTERN, v): ^-?\d+\.?\d*$
MatchNumber(v) ==
    LET s == IF v # <<>> /\ v[1] = "-" THEN 2 ELSE 1
    IN \E m \in s..Len(v) :
          /\ \A i \in s..m : IsDigit(v[i])
          /\ \/ m = Len(v)
             \/ /\ v[m + 1] = "."
                /\ \A i \in (m + 2)..Len(v) : IsDigit(v[i])

EmailHints == {<<"e", "m", "a", "i", "l">>, <<"m", "a", "i", "l">>}

DateHints == {<<"d", "a", "t", "e">>, <<"c", "a", "l", "e", "n", "d", "a", "r">>}

NumberHints == {<<"n", "u", "m", "b", "e", "r">>, <<"a", "m", "o", "u", "n", "t">>, <<"q", "u", "a", "n", "t", "i", "t", "y">>, <<"q", "t", "y">>, <<"p", "r", "i", "c", "e">>}

\* _detect_input_type(value, selector)
DetectInputType(v, sel) ==
    LET selector_lower == LowerStr(sel)
    IN IF \E pattern \in DATE_PATTERNS : MatchDate(pattern, v) THEN "date"
       ELSE IF MatchEmail(v) THEN "email"
       ELSE IF MatchNumber(v) THEN "number"
       ELSE IF \E hint \in EmailHints : Contains(selector_lower, hint) THEN "email"
       ELSE IF \E hint \in DateHints : Contains(selector_lower, hint) THEN "date"
       ELSE IF \E hint \in NumberHints : Contains(selector_lower, hint) THEN "number"
       ELSE "text"

Quotes == {"\"", "'"}

\* the first index from a on that holds no white space
RECURSIVE SkipSpaces(_, _)
SkipSpaces(s, a) ==
    IF a <= Len(s) /\ s[a] = " " THEN SkipSpaces(s, a + 1) ELSE a

\* the first index from a on that holds a quote
RECURSIVE NextQuote(_, _)
NextQuote(s, a) ==
    IF a <= Len(s) /\ s[a] \notin Quotes THEN NextQuote(s, a + 1) ELSE a

\* key[=:]?\s*["\']([^"\']+)["\'] with re.IGNORECASE, tried at index p of
\* sel: the group, or <<>> if there is no match there
GroupAt(sel, p, key) ==
    LET e == p + Len(key)
        a == IF e <= Len(sel) /\ sel[e] \in {"=", ":"} THEN e + 1 ELSE e
        b == SkipSpaces(sel, a)
        c == NextQuote(sel, b + 1)
    IN IF /\ e - 1 <= Len(sel)
          /\ LowerStr(SubSeq(sel, p, e - 1)) = key
          /\ b <= Len(sel) /\ sel[b] \in Quotes
          /\ c <= Len(sel) /\ c > b + 1
       THEN SubSeq(sel, b + 1, c - 1)
       ELSE <<>>

\* re.search of (?:k1|k2|...)[=:]?\s*["\']([^"\']+)["\']: the leftmost
\* match, and at one index the first alternative that matches
Search(sel, keys) ==
    LET hits == {p \in 1..Len(sel) : \E j \in 1..Len(keys) : GroupAt(sel, p, keys[j]) # <<>>}
    IN IF hits = {} THEN <<>>
       ELSE LET p == CHOOSE x \in hits : \A y \in hits : x <= y
                j == CHOOSE x \in 1..Len(keys) :
                        /\ GroupAt(sel, p, keys[x]) # <<>>
                        /\ \A y \in 1..(x - 1) : GroupAt(sel, p, keys[y]) = <<>>
            IN GroupAt(sel, p, keys[j])

NameKeys == <<<<"n", "a", "m", "e">>>>

LabelKeys == <<<<"l", "a", "b", "e", "l">>>>

PlaceholderKeys == <<<<"p", "l", "a", "c", "e", "h", "o", "l", "d", "e", "r">>>>

IdKeys == <<<<"i", "d">>, <<"t", "e", "s", "t", "-", "i", "d">>, <<"d", "a", "t", "a", "-", "t", "e", "s", "t", "i", "d">>>>

\* name_parts: one entry for each of the four searches that matches
NameParts(sel) ==
    SelectSeq(<<Search(sel, NameKeys), Search(sel, LabelKeys),
                Search(sel, PlaceholderKeys), Search(sel, IdKeys)>>,
              LAMBDA part : part # <<>>)

\* re.sub(r'[^a-zA-Z0-9_]', '_', name)
SubInvalid(name) ==
    [i \in 1..Len(name) |-> IF IsAlnum(name[i]) \/ name[i] = "_" THEN name[i] ELSE "_"]

\* re.sub(r'_+', '_', name)
RECURSIVE Collapse(_)
Collapse(name) ==
    IF Len(name) < 2 THEN name
    ELSE IF name[1] = "_" /\ name[2] = "_" THEN Collapse(Tail(name))
    ELSE <<name[1]>> \o Collapse(Tail(name))

\* (mutant) the underscores at the ends stay
StripUnderscores_Kept(name) == name

\* name.strip('_')
RECURSIVE StripUnderscores(_)
StripUnderscores(name) ==
    IF name = <<>> THEN name
    ELSE IF name[1] = "_" THEN StripUnderscores(Tail(name))
    ELSE IF name[Len(name)] = "_" THEN StripUnderscores(SubSeq(name, 1, Len(name) - 1))
    ELSE name

INPUT_ == <<"I", "N", "P", "U", "T", "_">>

INPUT_VALUE == <<"I", "N", "P", "U", "T", "_", "V", "A", "L", "U", "E">>

\* _generate_variable_name(value, selector, action)
GenerateVariableName(v, sel) ==
    LET name_parts == NameParts(sel)
        raw == IF name_parts # <<>> THEN name_parts[1]
               ELSE IF Len(v) > 20 THEN SubSeq(v, 1, 20) ELSE v
        name == UpperStr(StripUnderscores(Collapse(SubInvalid(raw))))
    IN IF name = <<>> THEN INPUT_VALUE
       ELSE IF IsDigit(name[1]) THEN INPUT_ \o name
       ELSE name

\* a recorded line with one value and its selector
InitAnalyze ==
    /\ StopInit
    /\ AppIdle
    /\ CleanIdle
    /\ PostIdle
    /\ FlowIdle
    /\ is_recording = FALSE
    /\ current_session = 0
    /\ session = [t \in SessionIds |-> NoSession]
    /\ thread = [t \in SessionIds |-> NoThread]
    /\ lastCall = "none"
    /\ target_url = TRUE
    /\ credentials = FALSE
    /\ LoginIdle
    /\ ExtractIdle
    /\ cur_value \in Values
    /\ cur_selector \in Selectors
    /\ detected = <<>>
    /\ chosen_name = <<>>

\* TestAnalyzer(code).analyze(): the DetectedInput of the line
Analyse ==
    /\ Len(detected) < MaxAnalyses
    /\ detected' = Append(detected,
          [input_type |-> DetectInputType(cur_value, cur_selector),
           suggested_name |-> GenerateVariableName(cur_value, cur_selector)])
    /\ UNCHANGED <<cur_value, cur_selector, chosen_name>>
    /\ UNCHANGED <<is_recording, current_session, session, thread, lastCall,
                   target_url, credentials, stopVars, appVars, cleanVars, postVars,
                   flowVars, exVars, loginVars>>

\* _use_suggested_name: the input's variable name becomes the suggested one
UseSuggestedName ==
    /\ detected # <<>>
    /\ chosen_name' = detected[Len(detected)].suggested_name
    /\ UNCHANGED <<cur_value, cur_selector, detected>>
    /\ UNCHANGED <<is_recording, current_session, session, thread, lastCall,
                   target_url, credentials, stopVars, appVars, cleanVars, postVars,
                   flowVars, exVars, loginVars>>

NextAnalyze ==
    \/ Analyse
    \/ UseSuggestedName

SpecAnalyze == InitAnalyze /\ [][NextAnalyze]_vars

-----------------------------------------------------------------------------
(* _cleanup_recorded_code, first pass, and _extract_page_actions_only *)

\* lines of the codegen output in one run
MaxRaw == 3

\* the line that opens the run scaffold
DefRun == "def run(playwright: Playwright) -> None:"

\* The lines the codegen output is made of: the text of the line without
\* its leading whitespace, and the width of that whitespace.
RawLines ==
    {[indent |-> 0, text |-> DefRun],
     [indent |-> 4, text |-> "browser = playwright.chromium.launch(headless=False)"],
     [indent |-> 4, text |-> "page = context.new_page()"],
     [indent |-> 4, text |-> "page.click(\"#save\")"],
     [indent |-> 0, text |-> "page.click(\"#save\")"],
     [indent |-> 4, text |-> "expect(page).to_have_url(\"https://org.dynamics.com/\")"],
     [indent |-> 4, text |-> "with page.expect_popup() as page1_info:"],
     [indent |-> 4, text |-> "page1 = page1_info.value"],
     [indent |-> 4, text |-> "context.close()"],
     [indent |-> 0, text |-> "with sync_playwright() as playwright:"],
     [indent |-> 4, text |-> "run(playwright)"],
     [indent |-> 0, text |-> "print(\"recorded\")"],
     [indent |-> 0, text |-> ""]}

\* re.match(r'def run\(playwright.*\).*:', stripped)
MatchesDefRun(stripped) == stripped = DefRun

\* skip_patterns, matched at the start of the stripped line
MatchesSkip(stripped) ==
    stripped \in {"browser = playwright.chromium.launch(headless=False)",
                  "context = browser.new_context()",
                  "page = context.new_page()",
                  "context.close()",
                  "browser.close()",
                  "with sync_playwright() as playwright:",
                  "run(playwright)",
                  "from playwright.sync_api import Playwright, sync_playwright, expect",
                  "import re"}

\* stripped.startswith('page.')
StartsWithPage(stripped) == stripped \in {"page.click(\"#save\")"}

\* stripped.startswith('expect(')
StartsWithExpect(stripped) ==
    stripped \in {"expect(page).to_have_url(\"https://org.dynamics.com/\")"}

\* stripped.startswith('def ')
StartsWithDef(stripped) == stripped \in {DefRun}

\* stripped.startswith('with ')
StartsWithWith(stripped) ==
    stripped \in {"with page.expect_popup() as page1_info:",
                  "with sync_playwright() as playwright:"}

\* the condition under which the first pass of _cleanup_recorded_code
\* appends the line: the if at 241 or the elif at 244
Captured(stripped, in_run) ==
    \/ StartsWithPage(stripped)
    \/ in_run /\ stripped # "" /\ ~StartsWithDef(stripped) /\ ~StartsWithWith(stripped)
    \/ StartsWithExpect(stripped)

\* the condition of _extract_page_actions_only (376)
CapturedOnly(stripped) == StartsWithPage(stripped) \/ StartsWithExpect(stripped)

\* the line as it is appended: stripped by the first pass of the cleanup,
\* '    ' + stripped by _extract_page_actions_only
Kept(stripped) == [indent |-> IF cleanup_code THEN 0 ELSE 4, text |-> stripped]

RECURSIVE RawSeqs(_)
RawSeqs(n) ==
    IF n = 0 THEN {<<>>}
    ELSE LET shorter == RawSeqs(n - 1)
         IN shorter \cup {Append(q, l) : q \in {x \in shorter : Len(x) = n - 1},
                                         l \in RawLines}

InitExtract ==
    /\ StopInit
    /\ AppIdle
    /\ CleanIdle
    /\ PostIdle
    /\ FlowIdle
    /\ AnalyzeIdle
    /\ is_recording = FALSE
    /\ current_session = 0
    /\ session = [t \in SessionIds |-> NoSession]
    /\ thread = [t \in SessionIds |-> NoThread]
    /\ lastCall = "none"
    /\ target_url = TRUE
    /\ credentials = FALSE
    /\ LoginIdle
    /\ cleanup_code \in BOOLEAN
    /\ raw_lines \in RawSeqs(MaxRaw)
    /\ pos = 0
    /\ in_run_function = FALSE
    /\ extracted = <<>>
    /\ extraction = NotReturned

ExtractFrame ==
    UNCHANGED <<is_recording, current_session, session, thread, lastCall,
                target_url, credentials, stopVars, appVars, cleanVars, postVars,
                flowVars, anVars, loginVars>>

\* one pass of "for line in lines", in either function
ExtractLine ==
    /\ ~extraction.returned
    /\ pos < Len(raw_lines)
    /\ LET stripped == raw_lines[pos + 1].text
       IN IF MatchesDefRun(stripped)
          THEN in_run_function' = TRUE /\ UNCHANGED extracted
          ELSE /\ UNCHANGED in_run_function
               /\ IF MatchesSkip(stripped) \/ (extracted = <<>> /\ stripped = "")
                  THEN UNCHANGED extracted
                  ELSE IF (IF cleanup_code THEN Captured(stripped, in_run_function)
                                           ELSE CapturedOnly(stripped))
                       THEN extracted' = Append(extracted, Kept(stripped))
                       ELSE UNCHANGED extracted
    /\ pos' = pos + 1
    /\ UNCHANGED <<cleanup_code, raw_lines, extraction>>
    /\ ExtractFrame

\* "if not page_actions": the page and expect lines of the whole output
Fallback ==
    LET Picked(line) == StartsWithPage(line.text) \/ StartsWithExpect(line.text)
        picked == SelectSeq(raw_lines, Picked)
    IN [i \in 1..Len(picked) |-> Kept(picked[i].text)]

\* the loop is over. The cleanup falls back if it kept nothing and hands
\* page_actions to its second pass; _extract_page_actions_only returns them
\* (no kept line is blank, so the trailing-blank-line loop removes nothing)
ExtractReturn ==
    /\ ~extraction.returned
    /\ pos = Len(raw_lines)
    /\ extraction' = [returned |-> TRUE,
                      lines |-> IF cleanup_code /\ extracted = <<>>
                                THEN Fallback ELSE extracted]
    /\ UNCHANGED <<cleanup_code, raw_lines, pos, in_run_function, extracted>>
    /\ ExtractFrame

NextExtract == ExtractLine \/ ExtractReturn

SpecExtract == InitExtract /\ [][NextExtract]_vars

-----------------------------------------------------------------------------
(* C1: a recorder instance never has two recording runs in progress at     *)
(* once: a start_recording call made while an accepted recording has not   *)
(* finished is rejected and does not replace the current session.          *)
C1_OneRunAtATime ==
    /\ Cardinality(Unfinished) <= 1
    /\ \A t \in Unfinished : current_session = t

-----------------------------------------------------------------------------
(* Where the run is *)

\* inside an attempt of the login routine (its for-loop body)
AttemptPcs ==
    {"r_head", "r_check", "r_url", "r_email", "r_enter_email", "r_next",
     "r_after_email", "r_password", "r_enter_password", "r_signin", "r_mfa",
     "r_totp",
     "e_head", "e_check", "e_load", "e_email", "e_enter_email", "e_next",
     "e_after_email", "e_password", "e_enter_password", "e_signin", "e_mfa",
     "e_totp", "e_manual", "e_wait"}

HeadPcs == {"r_head", "e_head"}

MfaPcs == {"r_mfa", "e_mfa"}

TotpPcs == {"r_totp", "e_totp"}

\* the login routine has returned
LoginReturned == login_success # "none"

\* the login phase is over: the embedded routine has returned to the test;
\* the recorder's run has left perform_login_with_retry and the post-login
\* wait loop
LoginPhaseOver ==
    pc \in {"t_after", "t_done", "save", "codegen", "cleanup", "process",
            "except", "returned"}

-----------------------------------------------------------------------------
(* C2: for a page that reports a known provider error code at every        *)
(* observation, the login routine (the recorder's and the embedded one,    *)
(* run with credentials) returns failure after exactly max_retries + 1     *)
(* attempts.                                                               *)
C2_AlwaysErrorFails ==
    (pageKind = "always_error" /\ creds) =>
        /\ attempts <= MaxRetries + 1
        /\ LoginReturned =>
              (login_success = "false" /\ attempts = MaxRetries + 1)

C2_Witness ==
    /\ pageKind = "always_error"
    /\ routine = "recorder"
    /\ login_success = "false"
    /\ attempts = MaxRetries + 1

(* C3: whenever the login routine starts with the page already on the      *)
(* target domain and not on the identity provider's, it returns success in *)
(* the first attempt, whatever else the page shows.                        *)
C3_OnTargetSucceedsAtOnce ==
    (pageKind = "on_target" /\ creds) =>
        /\ attempts <= 1
        /\ LoginReturned => (login_success = "true")

(* C4: under any page behaviour the login routine makes at most            *)
(* max_retries + 1 attempts, and every early exit of an attempt either     *)
(* starts the next attempt with the counter advanced by exactly one or,    *)
(* with the budget spent, returns failure.                                 *)
C4_Step ==
    pc \in AttemptPcs =>
        /\ attempt' \in {attempt, attempt + 1}
        /\ (pc' \in HeadPcs) <=> (attempt' = attempt + 1)
        /\ (pc' \in HeadPcs) => (login_success' = "none")
        /\ (login_success' = "false") => (attempt = MaxRetries)

C4_AttemptBudget ==
    /\ [](attempts <= MaxRetries + 1 /\ attempt <= MaxRetries)
    /\ [][C4_Step]_vars

C4_Witness ==
    /\ pageKind = "any"
    /\ pc \in HeadPcs
    /\ attempt = MaxRetries
    /\ attempts = MaxRetries

(* C5: the login phase always terminates: every wait and polling loop in   *)
(* it is bounded, so the embedded routine returns success or failure and   *)
(* the recorder's run leaves its post-login wait loop.                     *)
C5_LoginTerminates ==
    /\ <>LoginPhaseOver
    /\ []((routine = "embedded" /\ pc = "t_after") =>
              login_success \in {"true", "false"})

C5_Witness ==
    /\ routine = "embedded"
    /\ login_success = "false"
    /\ attempts = MaxRetries + 1
    /\ elapsed >= WaitMax

(* C6: the login routine never lets an exception escape, in the recorder's *)
(* routine as in the embedded one.                                         *)
C6_NoExceptionEscapes == login_success # "raised"

(* C7: the MFA navigation loop runs at most 10 passes per attempt, every   *)
(* pass counts (also one that ends in the exception branch), and leaving   *)
(* the loop, with or without a TOTP field, leads to the TOTP-submit stage  *)
(* of the same attempt, never to a failed attempt.                         *)
C7_Step ==
    pc \in MfaPcs =>
        /\ mfa_attempt' = mfa_attempt + 1
        /\ pc' \in MfaPcs \cup TotpPcs
        /\ attempt' = attempt
        /\ login_success' = login_success

C7_MfaLoopCap ==
    /\ [](mfa_attempt <= mfa_max_attempts)
    /\ [][C7_Step]_vars

C7_Witness ==
    /\ pc \in TotpPcs
    /\ mfa_attempt = mfa_max_attempts
    /\ ~totp_field_found

(* C8: for the page sequence [options screen, push screen, TOTP screen],   *)
(* each click advancing to the next screen, the MFA loop reaches the        *)
(* TOTP-submit stage with the TOTP field found within 3 passes.            *)
C8_ScriptReachesTotp ==
    pageKind = "mfa_script" =>
        /\ (pc \in MfaPcs) => (mfa_attempt < 3 /\ ~totp_field_found)
        /\ (pc \in TotpPcs) => (mfa_attempt <= 3 /\ totp_field_found)

C8_Witness ==
    /\ pageKind = "mfa_script"
    /\ pc = "e_totp"
    /\ totp_field_found
    /\ mfa_attempt = 3

(* C9: when the login has failed, the recording subprocess is never        *)
(* launched and the run does not end with a successful result.             *)
C9_NoRecordingAfterFailedLogin ==
    login_success = "false" => (~codegen /\ outcome # "success")

(* C10: the storage-state file written by the login phase no longer exists *)
(* when _run_with_auto_login returns, on every path.                       *)
C10_AuthFileRemoved == pc = "returned" => ~auth_file

\* C11: a click on the start button with the target URL missing, the output
\* directory missing, or auto-login ticked while the key vault yields no
\* credentials ends in a snackbar; it creates no session and starts no
\* background run, and the button stays enabled.
C11_Step ==
    (request' # request) =>
       /\ (~target_url \/ ~output_directory
             \/ (request'.auto_login /\ ~credentials'))
            => (request'.outcome \in Rejected)
       /\ (request'.outcome \in Rejected)
            => (/\ thread' = thread
                /\ session' = session
                /\ start_record_btn' = "enabled")

C12_SubprocessFailureFails ==
    (pc = "returned" /\ returncode # "zero") => (outcome # "success")

\* C13: a stop_recording call made while a recording is in progress signals
\* the recording subprocess to terminate and leaves is_recording false.
C13_StopTerminates ==
    lastStop.recording => (lastStop.signalled /\ ~lastStop.is_recording)

\* C14: a session whose completion flag is set keeps all its fields from
\* then on, also when the completion callback raises.
C14_Step ==
    \A t \in SessionIds : session[t].is_complete => (session'[t] = session[t])

C14_CompleteIsFinal == [][C14_Step]_vars

\* C15: two runs that differ in the username, the password and the TOTP
\* seed alone write the same artifact text and end with the same session
\* fields and the same result fields.
C15_CredentialsNotPersisted ==
    /\ artifact[1] = artifact[2]
    /\ fsession[1] = fsession[2]
    /\ fresult[1] = fresult[2]

C15_Witness ==
    /\ fpc = "done"
    /\ cred[1].username # cred[2].username
    /\ cred[1].password # cred[2].password
    /\ cred[1].totp_secret # cred[2].totp_secret
    /\ sent[1] # sent[2]
    /\ artifact[1] # <<>>
    /\ fresult[1].success

\* C16: the embedded login routine and the recorder's are the same state
\* machine; in particular an attempt after the first is opened, in both, by
\* loading the original target URL again.
C16_SameRecovery ==
    (pc \in AttemptPcs \ HeadPcs /\ attempt > 0) => (nav = "goto_target")

\* the lines of a returned text, without their indentation
ReturnedLines == [i \in 1..Len(cleaned_code.lines) |-> cleaned_code.lines[i].line]

IsClick(line) == line.op \in {"page.click", "get_by_role.click"}

IsWait(line) == line.op = "page.wait_for_timeout"

KeptWait(line) == IsWait(line) /\ line.ms >= 100

\* C17: the text the cleaner returns has no two adjacent identical click
\* actions.
C17_NoAdjacentDuplicateClicks ==
    cleaned_code.returned =>
        \A i \in 1..(Len(cleaned_code.lines) - 1) :
            (ReturnedLines[i] = ReturnedLines[i + 1]) => ~IsClick(ReturnedLines[i])

\* C18: a wait of n milliseconds is removed exactly when n < 100, whatever
\* the other lines are: the waits of the returned text are the waits of the
\* input of 100 ms and more, in their order.
C18_ShortWaitsRemoved ==
    cleaned_code.returned =>
        (SelectSeq(ReturnedLines, IsWait) = SelectSeq(page_actions, KeptWait))

C18_Witness ==
    /\ cleaned_code.returned
    /\ \E i, j \in 1..Len(page_actions) :
          /\ page_actions[i] = [op |-> "page.wait_for_timeout", sel |-> "", ms |-> 99]
          /\ page_actions[j] = [op |-> "page.wait_for_timeout", sel |-> "", ms |-> 100]
    /\ Len(SelectSeq(ReturnedLines, IsWait)) = 1

\* the literals of a line, and those of them outside a get_var(...) call
LitTexts(line) == {line[p].text : p \in {x \in 1..Len(line) : line[x].kind = "lit"}}

OutsideLitTexts(line) ==
    {line[p].text : p \in {x \in 1..Len(line) :
                             /\ line[x].kind = "lit"
                             /\ (x = 1 \/ line[x - 1] # Code("get_var("))}}

HasLookup(line, name) ==
    \E p \in 1..(Len(line) - 2) :
        /\ line[p] = Code("get_var(")
        /\ line[p + 1] = Lit("dq", name)
        /\ line[p + 2] = Code(")")

HasAnyLookup(line) == \E p \in 1..Len(line) : line[p] = Code("get_var(")

\* what the call just made returned
LastApplied == applied[Len(applied)]

C20_ApplyIdempotent ==
    \A i, j \in 1..Len(applied) : applied[i] = applied[j]

C20_Witness ==
    /\ Len(applied) = 2
    /\ \E n \in 1..Len(inputs) : inputs[n].variable_name = inputs[n].value

\* C21: once every input has been cleared, apply() returns the original
\* code, whatever was set, applied and cleared before.
C21_ClearedRestoresOriginal ==
    (applied # <<>> /\ \A n \in 1..Len(inputs) : ~IsModified(inputs[n])) =>
        (LastApplied = [modified_lines |-> code, TEST_VARIABLES |-> {}])

C21_Witness ==
    /\ applied # <<>>
    /\ altered
    /\ last_edit.op \in {"clear_modification", "_on_reset_changes"}
    /\ \A n \in 1..Len(inputs) : ~IsModified(inputs[n])

\* C22: apply() with no modified input returns the lines as they were, and
\* with modified inputs it returns as many lines, each line that is not the
\* line of a modified input as it was.
C22_OtherLinesVerbatim ==
    (applied # <<>>) =>
        /\ Len(LastApplied.modified_lines) = Len(code)
        /\ \A l \in 1..Len(code) :
              (\A n \in 1..Len(inputs) :
                  IsModified(inputs[n]) => inputs[n].line_number # l)
              => (LastApplied.modified_lines[l] = code[l])

C22_Witness ==
    /\ applied # <<>>
    /\ \E n, m \in 1..Len(inputs) :
          /\ Truthy(inputs[n].variable_name)
          /\ ~IsModified(inputs[m])
          /\ LitTexts(code[inputs[m].line_number]) = {inputs[n].value}
          /\ LastApplied.modified_lines[inputs[n].line_number]
                # code[inputs[n].line_number]

C24_EmailKeywords == {<<"e", "m", "a", "i", "l">>}

C24_DateKeywords == {<<"d", "a", "t", "e">>, <<"c", "a", "l", "e", "n", "d", "a", "r">>}

C24_NumberKeywords == {<<"n", "u", "m", "b", "e", "r">>, <<"a", "m", "o", "u", "n", "t">>, <<"q", "u", "a", "n", "t", "i", "t", "y">>, <<"p", "r", "i", "c", "e">>}

C24_Classified(v, sel) ==
    LET s == LowerStr(sel)
    IN IF \E pattern \in DATE_PATTERNS : MatchDate(pattern, v) THEN "date"
       ELSE IF MatchEmail(v) THEN "email"
       ELSE IF MatchNumber(v) THEN "number"
       ELSE IF \E w \in C24_EmailKeywords : Contains(s, w) THEN "email"
       ELSE IF \E w \in C24_DateKeywords : Contains(s, w) THEN "date"
       ELSE IF \E w \in C24_NumberKeywords : Contains(s, w) THEN "number"
       ELSE "text"

\* C24: the type of a detected input is the first that applies of: date by
\* the shape of the value, email by its shape, number by its shape, email
\* by the keyword email in the selector, date by date or calendar, number by
\* number, amount, quantity or price; and text if none applies.
C24_FirstMatchWins ==
    \A i \in 1..Len(detected) :
        detected[i].input_type = C24_Classified(cur_value, cur_selector)

UppersDigitsUnderscore == Range(Uppers) \cup Digits \cup {"_"}

\* C25: every analysis of the same value and selector suggests the same
\* name, whatever name has been taken over in between; the name starts with
\* an uppercase letter, is made of uppercase letters, digits and
\* underscores, and has no two underscores in a row.
C25_SuggestedNames ==
    \A i \in 1..Len(detected) :
        LET name == detected[i].suggested_name
        IN /\ name = detected[1].suggested_name
           /\ name # <<>>
           /\ name[1] \in Range(Uppers)
           /\ Range(name) \subseteq UppersDigitsUnderscore
           /\ \A p \in 1..(Len(name) - 1) : ~(name[p] = "_" /\ name[p + 1] = "_")

C25_Witness ==
    /\ Len(detected) = 2
    /\ chosen_name = detected[1].suggested_name
    /\ SubSeq(detected[2].suggested_name, 1, 6) = INPUT_
    /\ Len(detected[2].suggested_name) = 7

\* the pass has gone back to the loop test, which lets it in again unless
\* the cap of passes is reached
Relooped == pc \in {"r_mfa", "e_mfa"} \/ mfa_attempt = mfa_max_attempts

LeftLoop == pc \in {"r_totp", "e_totp"}

\* C26: a pass of the MFA loop in which page.content() does not raise is
\* decided by the first of these that applies: the TOTP input is present
\* (the loop is left, to submit); the push-screen link is visible and takes
\* the click (clicked, back to the loop test); a "Use a verification code"
\* element is visible and takes the click (the first such in the declared
\* order is clicked, back to the loop test); the transient MFA error text
\* (no click, back to the loop test); the MFA indicators (no click, back to
\* the loop test); none of them (the loop is left).
C26_MfaChecksInOrder ==
    (act # NoAct /\ ~seen.raise) =>
        LET pushOk == seen.push /\ ~seen.pushFails
            usable == seen.visible \ seen.broken
        IN CASE seen.totp ->
                  /\ act.clicked = "none"
                  /\ totp_field_found
                  /\ LeftLoop
             [] ~seen.totp /\ pushOk ->
                  /\ act.clicked = "cant_use_link"
                  /\ ~totp_field_found
                  /\ Relooped
             [] ~seen.totp /\ ~pushOk /\ usable # {} ->
                  /\ act.clicked = "code_option"
                  /\ act.strategy \in usable
                  /\ \A x \in usable : act.strategy <= x
                  /\ ~totp_field_found
                  /\ Relooped
             [] ~seen.totp /\ ~pushOk /\ usable = {}
                   /\ (seen.mfa_error \/ seen.indicators) ->
                  /\ act.clicked = "none"
                  /\ act.step = IF seen.mfa_error THEN "mfa_error" ELSE "mfa_wait"
                  /\ ~totp_field_found
                  /\ Relooped
             [] OTHER ->
                  /\ act.clicked = "none"
                  /\ ~totp_field_found
                  /\ LeftLoop /\ pc \notin {"r_mfa", "e_mfa"}

C26_Witness ==
    /\ act.clicked = "code_option"
    /\ act.strategy = 2
    /\ seen.visible = {2, 3, 4}
    /\ seen.mfa_error /\ seen.indicators
    /\ routine = "embedded"
    /\ pc = "e_mfa"

\* C27: an attempt whose TOTP stage had no seed, or whose submission of the
\* code failed, has been in the manual-completion poll when it is in the
\* wait-for-completion stage.
C27_FallbackPoll ==
    (pc \in {"e_wait", "after_login", "wait"} /\ totp_submit \in {"no_secret", "failed"})
        => polled

\* C28: the wait-for-completion loop of the embedded routine reloads the
\* page for AADSTS900561 at most once in an attempt.
C28_ReloadsOnce == error_retry_count <= 1

\* C29: no wait loop answers "Stay signed in?" with "yes", and none clicks
\* the primary button on a page that is not the prompt.
C29_NeverYes == stay_click \notin {"yes", "primary_elsewhere"}

\* C30: the text the cleaner returns holds no navigation to the primary
\* application domain.
C30_TargetNavigationDropped ==
    cleaned_code.returned =>
        \A i \in 1..Len(cleaned_code.lines) :
            ~(/\ ReturnedLines[i].op = "page.goto"
              /\ ReturnedLines[i].sel = "https://org.dynamics.com/")

-----------------------------------------------------------------------------
\* the lines of raw_lines that lie inside the run scaffold: after a
\* "def run" line, and up to the first line written at the left margin
InsideRun(i) ==
    \E j \in 1..(i - 1) :
        /\ MatchesDefRun(raw_lines[j].text)
        /\ \A m \in (j + 1)..i : raw_lines[m].indent > 0 \/ raw_lines[m].text = ""

\* what the extraction is said to keep: the lines inside the scaffold that
\* are neither blank nor browser/context/page scaffolding, in their order
ScaffoldBody ==
    LET In(i) == /\ InsideRun(i)
                 /\ raw_lines[i].text # ""
                 /\ ~MatchesSkip(raw_lines[i].text)
                 /\ ~MatchesDefRun(raw_lines[i].text)
        RECURSIVE From(_)
        From(i) == IF i > Len(raw_lines) THEN <<>>
                   ELSE IF In(i) THEN <<raw_lines[i].text>> \o From(i + 1)
                   ELSE From(i + 1)
    IN From(1)

\* the texts of the lines handed on
ExtractedTexts == [i \in 1..Len(extraction.lines) |-> extraction.lines[i].text]

\* C31: the extraction keeps exactly the lines inside the enclosing run
\* scaffold, and discards every line outside it, before its start and after
\* its end, and all browser/context/page scaffolding lines.
C31_KeepsScaffoldBody ==
    extraction.returned => ExtractedTexts = ScaffoldBody

-----------------------------------------------------------------------------
\* the variable names assigned at present
AssignedNames ==
    {inputs[n].variable_name :
        n \in {m \in 1..Len(inputs) : Truthy(inputs[m].variable_name)}}

\* the names the dict of the text returned has an entry for
TableNames == {p[1] : p \in LastApplied.TEST_VARIABLES}

\* C32: after apply() the variable table holds exactly the variable names
\* assigned at present, each with the effective value of an input that
\* carries it (the replacement literal if one is set, else the original
\* literal); no entry of an earlier table is left, with or without variables.
C32_TableIsAssignedVariables ==
    applied # <<>> =>
        /\ TableNames = AssignedNames
        /\ \A p \in LastApplied.TEST_VARIABLES :
              \E n \in 1..Len(inputs) :
                  /\ inputs[n].variable_name = p[1]
                  /\ DisplayValue(inputs[n]) = p[2]

-----------------------------------------------------------------------------
\* the keys the lookup calls of the text returned are made with
LookupKeys ==
    {name \in Names \cup {"X", "N"} :
        \E i \in 1..Len(LastApplied.modified_lines) :
            HasLookup(LastApplied.modified_lines[i], name)}

\* C38: after apply() every key a lookup call of the output is made with
\* has an entry in the output's variable table, on a text of an earlier pass
\* with lookup calls and entries of its own and on a text without a table.
C38_LookupKeysInTable ==
    applied # <<>> => LookupKeys \subseteq TableNames

-----------------------------------------------------------------------------
\* C40: after any sequence of set_variable, set_new_value and
\* clear_modification, empty-string arguments included, the counts of the
\* summary satisfy modified_inputs = variables_created + values_changed and
\* modified_inputs <= total_inputs.
C40_SummaryCountsAddUp ==
    LET summary == GetSummary(inputs)
    IN /\ summary.modified_inputs = summary.variables_created + summary.values_changed
       /\ summary.modified_inputs <= summary.total_inputs

-----------------------------------------------------------------------------
\* C33: in the generated test the login routine is invoked from the
\* navigation to the target URL and from nowhere else, and the recorded
\* actions are replayed from the return of the login routine and from
\* nowhere else: no recorded action precedes the login invocation.
C33_Step ==
    routine = "embedded" =>
        /\ (pc # "e_creds" /\ pc' = "e_creds") => pc = "t_goto"
        /\ (outcome # "replayed" /\ outcome' = "replayed")
              => (pc = "t_after" /\ login_success # "none")

C33_FixedOrder == [][C33_Step]_vars

\* the test went through its three steps
C33_Witness ==
    /\ routine = "embedded"
    /\ pc = "t_done"
    /\ outcome = "replayed"
    /\ login_success = "true"
    /\ attempts > 0

\* C34: the login routine returns True only on a page whose URL is on the
\* target domain and not on the identity provider's; never on the identity
\* provider's page with the target domain in a parameter of the URL.
C34_SuccessOnTargetOnly ==
    login_success = "true" => success_url = "target"

\* C39: in the generated test the recorded actions are replayed only when
\* the login routine has returned True; a failed login stops the test
\* before the first recorded action.
C39_ReplayOnlyAfterSuccess ==
    outcome = "replayed" => login_success = "true"

-----------------------------------------------------------------------------
\* the runs that have left run_recording
Done == {t \in SessionIds : thread[t].pc = "done"}

\* C35: a run launched by an accepted start_recording call invokes exactly
\* one of on_complete and on_error, once, whatever the outcome of the run
\* and also when the callback raises; is_recording is False again once the
\* runs launched have all left run_recording.
C35_OneCallbackOnce ==
    /\ \A t \in Done : thread[t].on_complete + thread[t].on_error = 1
    /\ \A t \in SessionIds : thread[t].on_complete + thread[t].on_error <= 1
    /\ (Created # {} /\ Created = Done) => ~is_recording

\* C36: the session a run stores its output in and marks complete, and the
\* session its result refers to, are the session the start_recording call
\* that launched the run returned, under every interleaving of calls.
C36_OwnSession ==
    \A t \in SessionIds :
        /\ thread[t].result \in {0, t}
        /\ session[t].raw_output \in {0, t}
        /\ (session[t].is_complete \/ session[t].error)
              => thread[t].pc \in {"callback", "except", "finally", "done"}

\* C37: a start_recording call that raises (a recording is in progress, or
\* the target URL is not configured) leaves current_session, is_recording
\* and the credentials as they were, creates no session and starts no run.
C37_Step ==
    (lastCall' # lastCall /\ lastCall' \in {"RuntimeError", "ValueError"})
        => UNCHANGED <<current_session, is_recording, credentials, session, thread>>

C37_RejectedCallChangesNothing == [][C37_Step]_vars

\* a call was turned down while the first run was under way
C37_Witness ==
    /\ lastCall = "RuntimeError"
    /\ is_recording
    /\ current_session = 1
    /\ Created = {1}

====
